---- MODULE Spec2Model ----
(***************************************************************************)
(* Erika: threat scoring and mitigation (services/ares_bridge.py), the     *)
(* OAuth2 token manager (plugins/email/oauth_token_manager.py) and the     *)
(* mail services (plugins/email/gmail_service.py, imap_service.py), the    *)
(* footprint analyzer, reverse image search, phishing detector and gateway *)
(* client under services/, and the plugin client (plugin/plugin_client.py).*)
(*                                                                         *)
(* Scores are fixed-point: one unit is 1/10000, so 0.40 is 4000 and the    *)
(* content_risk_score argument is given in hundredths (0.9 is 90), which   *)
(* makes content_risk_score * 0.30 the integer product c * 30.             *)
(***************************************************************************)
EXTENDS Integers, Sequences, FiniteSets, TLC

VARIABLES
    scoreArgs,       \* arguments of the last calculate_threat_score call
    scoreResult,     \* what that call gave back to its caller
    labels,          \* mailbox: label set of the message "m1"
    prevLabels,      \* label set of "m1" before the last mitigation call
    mitArgs,         \* arguments of the last request_client_mitigation call
    mitResult,       \* what that call gave back to its caller
    providerRequest, \* body of the messages.modify call it made, or NoRequest
    lastApplied,     \* action of the last successful mitigation, or NoAction
    appliedTwice,    \* the last call succeeded with the action of the one before
    tokenFile,       \* the pickle file: stored credentials or NoFile
    metadataFile,    \* the JSON metadata file or NoFile
    now,             \* clock
    grant,           \* authorization server: state of the user's grant
    loadCase,        \* which case the last load_token call met
    loadOutcome,     \* what that call gave back to its caller
    signals,         \* per case, the outcome load_token has been seen to give
    lastOp,          \* the last operation on the token store
    refreshResult,   \* what the last creds.refresh call of that operation gave
    refreshLog,      \* the credentials creds.refresh was called on in that operation
    revokedTokens,   \* the credentials load_token has found revoked
    authInfo,        \* the last authenticate call: what it met and did
    authOutcome,     \* what that call gave back to its caller
    service,         \* ErikaGmailService.service: the credentials it was built with
    mailArgs,        \* the last fetch / send / draft call, or NoCall
    mailResult,      \* what that call gave and what it sent to the provider
    ingestArgs,      \* the message a provider holds and the service reading it
    ingestResult,    \* the email dict the service made of it
    cache,           \* FootprintAnalyzer.cache: per domain, the record kept
    inboxPos,        \* how many messages of the inbox have been assessed
    assessArgs,      \* the message assessed last
    assessResult,    \* its footprint record and its threat analysis
    recommended,     \* the actions recommended for the messages assessed so far
    verifyArgs,      \* the last verify_email_sender call, or NoCall
    verifyResult,    \* what that call gave back to its caller
    phishArgs,       \* the message whose phishing check ran last, and its setting
    phishResult,     \* the phishing fields its email dict got
    syncArgs,        \* the last sync_email call: the caller's record, the answer
    syncResult,      \* what the call gave back and the caller's record after it
    gatewayPayload,  \* the payload posted to the gateway, or NoPayload
    lookupPc,        \* per thread, where it is in get_footprint_data
    lookupSender,    \* per thread, the sender it was called with
    lookupOut,       \* per thread, the record its last call returned
    registered,      \* ErikaPluginClient.registered
    gatewayMode,     \* the gateway: "flaky", or "stable" once it stays healthy
    gatewayKnows,    \* whether the gateway has the plugin registered
    lastPass,        \* what the client's last call met and did
    passes           \* passes of the keep-alive loop so far, counted up to MaxPasses

scoreVars == <<scoreArgs, scoreResult>>
mitVars   == <<labels, prevLabels, mitArgs, mitResult, providerRequest, lastApplied,
              appliedTwice>>
tokenVars == <<tokenFile, metadataFile, now, grant, loadCase, loadOutcome, signals,
              lastOp, refreshResult, refreshLog, revokedTokens, authInfo, authOutcome,
              service>>
mailVars  == <<mailArgs, mailResult, ingestArgs, ingestResult>>
assessVars == <<cache, inboxPos, assessArgs, assessResult, recommended>>
phishVars == <<verifyArgs, verifyResult, phishArgs, phishResult>>
gatewayVars == <<syncArgs, syncResult, gatewayPayload>>
lookupVars == <<lookupPc, lookupSender, lookupOut>>
clientVars == <<registered, gatewayMode, gatewayKnows, lastPass, passes>>
svcVars   == <<assessVars, phishVars, gatewayVars, lookupVars, clientVars>>
vars      == <<scoreVars, mitVars, tokenVars, mailVars, svcVars>>

-----------------------------------------------------------------------------
(* Python values and exceptions                                            *)

None    == "None"       \* Python None, where a string is expected
Missing == "<missing>"  \* a key that is not in the dict, where a string is expected
NoCall  == [kind |-> "nocall"]  \* no call has been made yet

\* a dict entry that should hold a number: a number, None, or no such key
Num(n)     == [t |-> "int", v |-> n]
NoneNum    == [t |-> "none", v |-> 0]
MissingNum == [t |-> "missing", v |-> 0]

Returned(v) == [kind |-> "return", value |-> v]
Raised(cls, text) == [kind |-> "raise", cls |-> cls, text |-> text]
IsRaise(r) == r.kind = "raise"

\* except <handler>: every exception class used here derives from Exception
Catches(handler, cls) == handler = "Exception" \/ handler = cls

\* dict.get(key, default)
DictGet(d, key, default) == IF d[key] = Missing THEN default ELSE d[key]
DictGetNum(d, key, default) == IF d[key].t = "missing" THEN Num(default) ELSE d[key]

Min(a, b) == IF a < b THEN a ELSE b
Max(a, b) == IF a > b THEN a ELSE b

-----------------------------------------------------------------------------
(* AresBridge.calculate_threat_score                                       *)

FOOTPRINT_FULL      == 4000
FOOTPRINT_PARTIAL   == 2000
FOOTPRINT_MINIMAL   == 1000
DOMAIN_MISMATCH     == 3000
CONTENT_WEIGHT      == 30
CONTENT_CAP         == 3000
SCORE_CAP           == 10000
CONTENT_SCORE_MAX   == 100
PHISHING_THRESHOLD  == 8000
FLAG_THRESHOLD      == 5000
ERROR_SCORE         == 5000
DEFAULT_AGE_DAYS    == 999

MaxSourceCount == 11

SourceCounts == 0..MaxSourceCount
AgeDays      == {10, 89, 90, 179, 180, 365, 730, 999}
ContentScores == {-50, 0, 33, 34, 50, 90, 100, 150}

\* sender strings and what re.search(r'@([a-zA-Z0-9.-]+\.[a-zA-Z]{2,})', s)
\* gives for each: group(1).lower(), or None when nothing matches
SenderStrings == {"Jane Doe <jane@gmail.com>", "Jane Doe <jane@GMAIL.com>",
                  "bob@acme-corp.com", "eve@mail.com",
                  "Undisclosed recipients", ""}

NotAString == "<not a str>"

email_match(sender) ==
    CASE sender = "Jane Doe <jane@gmail.com>" -> "gmail.com"
      [] sender = "Jane Doe <jane@GMAIL.com>" -> "gmail.com"
      [] sender = "bob@acme-corp.com"         -> "acme-corp.com"
      [] sender = "eve@mail.com"              -> "mail.com"
      [] OTHER                                -> None

bridge_personal_domains ==
    {"gmail.com", "yahoo.com", "hotmail.com", "outlook.com",
     "icloud.com", "protonmail.com", "aol.com"}

\* body strings and whether any professional keyword is found in body.lower()
BodyStrings == {"I'm a recruiter at Acme Corp", "Invoice from ACME INC. attached",
                "See you at lunch on Friday", ""}

claims_professional_role(body) ==
    body \in {"I'm a recruiter at Acme Corp", "Invoice from ACME INC. attached"}

\* the body of _detect_domain_mismatch's try block
detect_domain_mismatch_body(sender, body) ==
    IF sender = NotAString THEN Raised("TypeError", {})
    ELSE IF email_match(sender) = None THEN Returned(FALSE)
    ELSE IF email_match(sender) \notin bridge_personal_domains THEN Returned(FALSE)
    ELSE IF body = NotAString THEN Raised("AttributeError", {})
    ELSE Returned(claims_professional_role(body))

\* _detect_domain_mismatch: any exception of the body is logged and gives False
detect_domain_mismatch(sender, body) ==
    LET r == detect_domain_mismatch_body(sender, body)
    IN  IF IsRaise(r) /\ Catches("Exception", r.cls) THEN Returned(FALSE) ELSE r

IsNumber(x) == x.t = "int"

\* a < b of Python on a value that may not be a number
LessThan(x, n) == IF IsNumber(x) THEN Returned(x.v < n) ELSE Raised("TypeError", {})

\* step 1, the footprint if/elif chain, with Python's short-circuit `and`
footprint_risk_mutant_age_inclusive(footprint_data) ==
    IF footprint_data.t = "none" THEN Raised("AttributeError", {})
    ELSE
    LET source_count == DictGetNum(footprint_data, "source_count", 0)
        age_days     == DictGetNum(footprint_data, "age_days", DEFAULT_AGE_DAYS)
        c1 == IF source_count = Num(0) THEN LessThan(age_days, 90) ELSE Returned(FALSE)
        c2a == LessThan(source_count, 3)
        c2 == IF IsRaise(c2a) THEN c2a
              ELSE IF c2a.value THEN LessThan(age_days, 181) ELSE Returned(FALSE)
        c3 == LessThan(source_count, 10)
    IN  IF IsRaise(c1) THEN c1
        ELSE IF c1.value THEN Returned(FOOTPRINT_FULL)
        ELSE IF IsRaise(c2) THEN c2
        ELSE IF c2.value THEN Returned(FOOTPRINT_PARTIAL)
        ELSE IF IsRaise(c3) THEN c3
        ELSE IF c3.value THEN Returned(FOOTPRINT_MINIMAL)
        ELSE Returned(0)

footprint_risk(footprint_data) ==
    IF footprint_data.t = "none" THEN Raised("AttributeError", {})
    ELSE
    LET source_count == DictGetNum(footprint_data, "source_count", 0)
        age_days     == DictGetNum(footprint_data, "age_days", DEFAULT_AGE_DAYS)
        c1 == IF source_count = Num(0) THEN LessThan(age_days, 90) ELSE Returned(FALSE)
        c2a == LessThan(source_count, 3)
        c2 == IF IsRaise(c2a) THEN c2a
              ELSE IF c2a.value THEN LessThan(age_days, 180) ELSE Returned(FALSE)
        c3 == LessThan(source_count, 10)
    IN  IF IsRaise(c1) THEN c1
        ELSE IF c1.value THEN Returned(FOOTPRINT_FULL)
        ELSE IF IsRaise(c2) THEN c2
        ELSE IF c2.value THEN Returned(FOOTPRINT_PARTIAL)
        ELSE IF IsRaise(c3) THEN c3
        ELSE IF c3.value THEN Returned(FOOTPRINT_MINIMAL)
        ELSE Returned(0)

\* step 2, the domain mismatch contribution
domain_mismatch_risk(email_analysis) ==
    IF email_analysis.t = "none" THEN Raised("AttributeError", {})
    ELSE
    LET r == detect_domain_mismatch(DictGet(email_analysis, "sender", ""),
                                    DictGet(email_analysis, "body", ""))
    IN  IF IsRaise(r) THEN r
        ELSE Returned(IF r.value THEN DOMAIN_MISMATCH ELSE 0)

\* step 3, the content contribution: clamp, weight, cap
content_risk_mutant_noclamp(content_risk_score) ==
    IF ~IsNumber(content_risk_score) THEN Raised("TypeError", {})
    ELSE Returned(content_risk_score.v * CONTENT_WEIGHT)

content_risk(content_risk_score) ==
    IF ~IsNumber(content_risk_score) THEN Raised("TypeError", {})
    ELSE LET clamped == Max(0, Min(CONTENT_SCORE_MAX, content_risk_score.v))
         IN  Returned(Min(clamped * CONTENT_WEIGHT, CONTENT_CAP))

\* the decision thresholds
mitigation_action_mutant_gt(final_score) ==
    IF final_score > PHISHING_THRESHOLD THEN "MARK_AS_PHISHING"
    ELSE IF final_score > FLAG_THRESHOLD THEN "FLAG"
    ELSE "NONE"

mitigation_action_for(final_score) ==
    IF final_score >= PHISHING_THRESHOLD THEN "MARK_AS_PHISHING"
    ELSE IF final_score >= FLAG_THRESHOLD THEN "FLAG"
    ELSE "NONE"

Breakdown(f, d, c) ==
    [footprint_risk |-> f, domain_mismatch_risk |-> d, content_risk |-> c]

\* the body of calculate_threat_score's try block
calculate_threat_score_body(email_analysis, footprint_data, content_risk_score) ==
    LET id == IF email_analysis.t = "none" THEN Raised("AttributeError", {})
              ELSE Returned(DictGet(email_analysis, "id", "unknown"))
        f  == footprint_risk(footprint_data)
        d  == domain_mismatch_risk(email_analysis)
        c  == content_risk(content_risk_score)
    IN  IF IsRaise(id) THEN id
        ELSE IF IsRaise(f) THEN f
        ELSE IF IsRaise(d) THEN d
        ELSE IF IsRaise(c) THEN c
        ELSE LET final_score == Min(f.value + d.value + c.value, SCORE_CAP)
             IN  Returned([threat_score |-> final_score,
                           scoring_breakdown |-> Breakdown(f.value, d.value, c.value),
                           mitigation_action_recommended |->
                               mitigation_action_for(final_score)])

\* the except Exception branch: the default moderate risk
error_result ==
    [threat_score |-> ERROR_SCORE,
     scoring_breakdown |-> Breakdown(0, 0, 0),
     mitigation_action_recommended |-> "FLAG"]

calculate_threat_score(email_analysis, footprint_data, content_risk_score) ==
    LET r == calculate_threat_score_body(email_analysis, footprint_data,
                                         content_risk_score)
    IN  IF IsRaise(r) /\ Catches("Exception", r.cls)
        THEN Returned(error_result)
        ELSE r

\* the inputs a caller can hand over
NoneDict == [t |-> "none"]

EmailAnalyses ==
    {NoneDict} \cup [t : {"dict"}, id : {"m1"},
                     sender : SenderStrings \cup {Missing, NotAString},
                     body : BodyStrings \cup {Missing, NotAString}]

FootprintDatas ==
    {NoneDict} \cup
    [t : {"dict"},
     source_count : {Num(n) : n \in SourceCounts} \cup {MissingNum, NoneNum},
     age_days : {Num(n) : n \in AgeDays} \cup {MissingNum, NoneNum}]

ContentRiskScores == {Num(n) : n \in ContentScores} \cup {NoneNum}

ScoreInit ==
    /\ scoreArgs = NoCall
    /\ scoreResult = NoCall

\* one call of calculate_threat_score; the bridge keeps no state between calls
ScoreCall ==
    /\ scoreArgs.kind = "nocall"
    /\ \E ea \in EmailAnalyses, fd \in FootprintDatas, crs \in ContentRiskScores :
        /\ scoreArgs' = [kind |-> "call", email_analysis |-> ea, footprint_data |-> fd,
                         content_risk_score |-> crs]
        /\ scoreResult' = calculate_threat_score(ea, fd, crs)
        /\ UNCHANGED <<svcVars, mitVars, tokenVars, mailVars>>

-----------------------------------------------------------------------------
(* AresBridge.request_client_mitigation                                    *)

GMAIL_MODIFY   == "https://www.googleapis.com/auth/gmail.modify"
GMAIL_READONLY == "https://www.googleapis.com/auth/gmail.readonly"
GMAIL_LABELS   == "https://www.googleapis.com/auth/gmail.labels"

AllLabels == {"INBOX", "UNREAD", "SPAM", "PHISHING_DETECTED_BY_ERIKA", "STARRED"}

Actions == {"MARK_AS_PHISHING", "MARK_AS_SPAM", "MARK_AS_READ", "FLAG"}

NoAction  == "<no action>"
NoRequest == [sent |-> FALSE, id |-> "", addLabelIds |-> <<>>, removeLabelIds |-> <<>>]

SeqToSet(q) == {q[i] : i \in 1..Len(q)}

\* the if/elif chain that picks the label lists; supported is FALSE in its else
mitigation_labels_mutant_keep_inbox(mitigation_action) ==
    CASE mitigation_action = "MARK_AS_PHISHING" ->
            [supported |-> TRUE, add_labels |-> <<"SPAM", "PHISHING_DETECTED_BY_ERIKA">>,
             remove_labels |-> <<>>]
      [] mitigation_action = "MARK_AS_SPAM" ->
            [supported |-> TRUE, add_labels |-> <<"SPAM">>, remove_labels |-> <<"INBOX">>]
      [] mitigation_action = "MARK_AS_READ" ->
            [supported |-> TRUE, add_labels |-> <<>>, remove_labels |-> <<"UNREAD">>]
      [] OTHER ->
            [supported |-> FALSE, add_labels |-> <<>>, remove_labels |-> <<>>]

mitigation_labels(mitigation_action) ==
    CASE mitigation_action = "MARK_AS_PHISHING" ->
            [supported |-> TRUE, add_labels |-> <<"SPAM", "PHISHING_DETECTED_BY_ERIKA">>,
             remove_labels |-> <<"INBOX">>]
      [] mitigation_action = "MARK_AS_SPAM" ->
            [supported |-> TRUE, add_labels |-> <<"SPAM">>, remove_labels |-> <<"INBOX">>]
      [] mitigation_action = "MARK_AS_READ" ->
            [supported |-> TRUE, add_labels |-> <<>>, remove_labels |-> <<"UNREAD">>]
      [] OTHER ->
            [supported |-> FALSE, add_labels |-> <<>>, remove_labels |-> <<>>]

\* An exception's text is kept as the set of the indicators str(e).lower() contains.
Indicators == {"403", "insufficient", "scope", "401", "unauthorized", "404", "not found"}

\* the except Exception branch's classification of str(e).lower()
classify_error_mutant_no_else(text) ==
    IF text \cap {"403", "insufficient", "scope"} # {} THEN "INSUFFICIENT_SCOPE"
    ELSE IF text \cap {"401", "unauthorized"} # {} THEN "UNAUTHORIZED"
    ELSE IF text \cap {"404", "not found"} # {} THEN "MESSAGE_NOT_FOUND"
    ELSE None

classify_error(text) ==
    IF text \cap {"403", "insufficient", "scope"} # {} THEN "INSUFFICIENT_SCOPE"
    ELSE IF text \cap {"401", "unauthorized"} # {} THEN "UNAUTHORIZED"
    ELSE IF text \cap {"404", "not found"} # {} THEN "MESSAGE_NOT_FOUND"
    ELSE "UNKNOWN_API_ERROR"

\* Credentials handed to the bridge: no object at all, or an object whose
\* scopes attribute is None or a list of scopes
NoCreds == [t |-> "none", scopes_t |-> "none", scopes |-> {}]
Creds(scopes)   == [t |-> "creds", scopes_t |-> "list", scopes |-> scopes]
CredsNoScopes   == [t |-> "creds", scopes_t |-> "none", scopes |-> {}]

CredentialValues ==
    {NoCreds, CredsNoScopes, Creds({}), Creds({GMAIL_READONLY}), Creds({GMAIL_MODIFY}),
     Creds({GMAIL_READONLY, GMAIL_MODIFY, GMAIL_LABELS})}

\* `'...gmail.modify' not in creds.scopes`, then the PermissionError
scope_check(creds) ==
    IF creds.t = "none" THEN Raised("AttributeError", {"scope"})
    ELSE IF creds.scopes_t = "none" THEN Raised("TypeError", {})
    ELSE IF GMAIL_MODIFY \notin creds.scopes THEN Raised("PermissionError", {"scope"})
    ELSE Returned(TRUE)

\* What the mail provider answers to users().messages().modify(...).execute()
ProviderFaults ==
    {[cls |-> "HttpError", text |-> {"403", "insufficient"}],
     [cls |-> "HttpError", text |-> {"401"}],
     [cls |-> "TimeoutError", text |-> {}]}

ProviderOk == [cls |-> "ok", text |-> {}]

MessageIds == {"m1", "m404"}

\* the label set of a message after messages.modify: labels are a set
modify_labels_mutant_toggle(current, addLabelIds, removeLabelIds) ==
    LET touched == SeqToSet(addLabelIds) \cup SeqToSet(removeLabelIds)
    IN  (current \ touched) \cup (touched \ current)

modify_labels(current, addLabelIds, removeLabelIds) ==
    (current \ SeqToSet(removeLabelIds)) \cup SeqToSet(addLabelIds)

\* the two result dicts
failure_result(email_client_id, mitigation_action, error_msg, error_code) ==
    [status |-> "FAILURE", message_id |-> email_client_id, action |-> mitigation_action,
     error |-> error_msg, error_code |-> error_code,
     labels_applied |-> <<>>, labels_removed |-> <<>>]

success_result_mutant_no_labels(email_client_id, mitigation_action, add_labels, remove_labels) ==
    [status |-> "SUCCESS", message_id |-> email_client_id, action |-> mitigation_action,
     error |-> None, error_code |-> None,
     labels_applied |-> <<>>, labels_removed |-> <<>>]

success_result(email_client_id, mitigation_action, add_labels, remove_labels) ==
    [status |-> "SUCCESS", message_id |-> email_client_id, action |-> mitigation_action,
     error |-> None, error_code |-> None,
     labels_applied |-> add_labels, labels_removed |-> remove_labels]

\* the except clauses after the try block, in order; an exception none of them
\* catches leaves the function
handle_mitigation_error(email_client_id, mitigation_action, exc) ==
    IF Catches("PermissionError", exc.cls)
    THEN Returned(failure_result(email_client_id, mitigation_action, "error",
                                 "INSUFFICIENT_SCOPE"))
    ELSE IF Catches("Exception", exc.cls)
    THEN Returned(failure_result(email_client_id, mitigation_action, "error",
                                 classify_error(exc.text)))
    ELSE exc

MitInit ==
    /\ labels \in SUBSET AllLabels
    /\ prevLabels = labels
    /\ mitArgs = NoCall
    /\ mitResult = NoCall
    /\ providerRequest = NoRequest
    /\ lastApplied = NoAction
    /\ appliedTwice = FALSE

\* request_client_mitigation(email_client_id, mitigation_action, creds); answer is
\* the provider's reaction in case the call reaches it
RequestClientMitigation ==
    \E email_client_id \in MessageIds, mitigation_action \in Actions,
       creds \in CredentialValues, answer \in ProviderFaults \cup {ProviderOk} :
        LET m == mitigation_labels(mitigation_action)
            check == scope_check(creds)
            \* the provider rejects an id it does not know
            reply == IF email_client_id = "m404" /\ answer = ProviderOk
                     THEN [cls |-> "HttpError", text |-> {"404", "not found"}]
                     ELSE answer
            called == m.supported /\ ~IsRaise(check)
                      /\ (Len(m.add_labels) > 0 \/ Len(m.remove_labels) > 0)
            ok == called /\ reply = ProviderOk
        IN
        /\ mitArgs' = [kind |-> "call", email_client_id |-> email_client_id,
                       mitigation_action |-> mitigation_action, creds |-> creds,
                       answer |-> reply]
        /\ prevLabels' = labels
        /\ providerRequest' =
              IF called
              THEN [sent |-> TRUE, id |-> email_client_id,
                    addLabelIds |-> m.add_labels, removeLabelIds |-> m.remove_labels]
              ELSE NoRequest
        /\ labels' = IF ok THEN modify_labels(labels, m.add_labels, m.remove_labels)
                     ELSE labels
        /\ lastApplied' = IF ok THEN mitigation_action
                          ELSE lastApplied
        /\ appliedTwice' = (ok /\ mitigation_action = lastApplied)
        /\ mitResult' =
              IF ~m.supported
              THEN Returned(failure_result(email_client_id, mitigation_action, "error",
                                           "UNSUPPORTED_ACTION"))
              ELSE IF IsRaise(check)
              THEN handle_mitigation_error(email_client_id, mitigation_action, check)
              ELSE IF called /\ reply # ProviderOk
              THEN handle_mitigation_error(email_client_id, mitigation_action,
                                           Raised(reply.cls, reply.text))
              ELSE Returned(success_result(email_client_id, mitigation_action,
                                           m.add_labels, m.remove_labels))
        /\ UNCHANGED <<svcVars, scoreVars, tokenVars, mailVars>>

-----------------------------------------------------------------------------
(* OAuthTokenManager: save_token, load_token                               *)

MaxTime       == 3    \* the clock stops here
TokenLifetime == 2    \* an access token expires this long after it is issued

USER_ID   == "default"
TOKEN_URI == "https://oauth2.googleapis.com/token"
SCOPES    == {GMAIL_READONLY, GMAIL_MODIFY, GMAIL_LABELS}

\* a google.oauth2 Credentials object; token is the time the access token was issued
Credential(token, refresh_token, expiry, scopes) ==
    [t |-> "creds", token |-> token, refresh_token |-> refresh_token,
     expiry |-> expiry, scopes |-> scopes, token_uri |-> TOKEN_URI]

NoCredential ==
    [t |-> "none", token |-> 0, refresh_token |-> FALSE,
     expiry |-> 0, scopes |-> {}, token_uri |-> ""]

NoFile == [exists |-> FALSE]

\* creds.expired
expired_mutant_early(creds, time) == time + 1 >= creds.expiry

expired(creds, time) == time >= creds.expiry

\* the metadata dict save_token writes
token_metadata_mutant_with_token(creds, time) ==
    [token_uri |-> creds.token_uri,
     scopes |-> creds.scopes,
     expiry |-> creds.expiry,
     last_refreshed |-> time,
     user_id |-> USER_ID,
     token |-> creds.token]

token_metadata(creds, time) ==
    [token_uri |-> creds.token_uri,
     scopes |-> creds.scopes,
     expiry |-> creds.expiry,
     last_refreshed |-> time,
     user_id |-> USER_ID]

\* save_token: the pickle of the credentials, then the metadata JSON
save_token_pickle(creds) == [exists |-> TRUE, creds |-> creds]
save_token_metadata(creds, time) == [exists |-> TRUE, data |-> token_metadata(creds, time)]

\* What the token endpoint answers to creds.refresh(Request())
RefreshAnswers == {"ok", "transport_error", "unauthorized_client"}

\* the exception creds.refresh raises, or the refreshed credentials
refresh_mutant_drop_scopes(creds, time, server_grant, answer) ==
    IF answer = "transport_error" THEN Raised("TransportError", {})
    ELSE IF server_grant = "revoked" THEN Raised("RefreshError", {"invalid_grant"})
    ELSE IF answer = "unauthorized_client" THEN Raised("RefreshError", {})
    ELSE Returned(Credential(time, creds.refresh_token, time + TokenLifetime, {}))

refresh(creds, time, server_grant, answer) ==
    IF answer = "transport_error" THEN Raised("TransportError", {})
    ELSE IF server_grant = "revoked" THEN Raised("RefreshError", {"invalid_grant"})
    ELSE IF answer = "unauthorized_client" THEN Raised("RefreshError", {})
    ELSE Returned(Credential(time, creds.refresh_token, time + TokenLifetime, creds.scopes))

\* `'invalid_grant' in error_str or 'revoked' in error_str`
is_revocation(text) == text \cap {"invalid_grant", "revoked"} # {}

\* The body of load_token's try block: what it returns or raises, the two files
\* afterwards and the case it met.
load_token_body(file, meta, time, server_grant, answer) ==
    IF ~file.exists
    THEN [out |-> Returned(NoCredential), file |-> file, meta |-> meta, case |-> "absent"]
    ELSE
    LET creds == file.creds IN
    IF ~expired(creds, time)
    THEN [out |-> Returned(creds), file |-> file, meta |-> meta, case |-> "valid"]
    ELSE IF ~creds.refresh_token
    THEN [out |-> Raised("Exception", {"expired"}), file |-> file, meta |-> meta,
          case |-> "expired_no_refresh_token"]
    ELSE
    LET r == refresh(creds, time, server_grant, answer) IN
    IF ~IsRaise(r)
    THEN [out |-> r, file |-> save_token_pickle(r.value),
          meta |-> save_token_metadata(r.value, time), case |-> "refreshed"]
    ELSE IF Catches("Exception", r.cls) /\ is_revocation(r.text)
    THEN [out |-> Raised("Exception", {"revoked"}), file |-> NoFile, meta |-> NoFile,
          case |-> "revoked"]
    ELSE [out |-> r, file |-> file, meta |-> meta, case |-> "refresh_failed"]

\* load_token: the outer `except Exception` logs and returns None
load_token_mutant_return_stale(file, meta, time, server_grant, answer) ==
    LET b == load_token_body(file, meta, time, server_grant, answer)
    IN  IF IsRaise(b.out) /\ Catches("Exception", b.out.cls)
        THEN [b EXCEPT !.out = Returned(IF file.exists THEN file.creds
                                                       ELSE NoCredential)]
        ELSE b

load_token(file, meta, time, server_grant, answer) ==
    LET b == load_token_body(file, meta, time, server_grant, answer)
    IN  IF IsRaise(b.out) /\ Catches("Exception", b.out.cls)
        THEN [b EXCEPT !.out = Returned(NoCredential)]
        ELSE b

LoadCases == {"absent", "valid", "expired_no_refresh_token", "refreshed", "revoked",
              "refresh_failed"}

Unseen == [kind |-> "unseen", what |-> "", text |-> {}]

\* what the caller of load_token can observe of an outcome
Signal(out) ==
    IF IsRaise(out) THEN [kind |-> "raise", what |-> out.cls, text |-> out.text]
    ELSE [kind |-> "return", what |-> out.value.t, text |-> {}]

\* the refresh call load_token made, if it made one
LoadRefreshed == {"refreshed", "revoked", "refresh_failed"}

load_refresh_calls(l, file) ==
    IF l.case \in LoadRefreshed THEN <<file.creds>> ELSE <<>>

load_refresh_result(l, file, time, server_grant, answer) ==
    IF l.case \in LoadRefreshed THEN refresh(file.creds, time, server_grant, answer)
    ELSE NoCall

load_revoked(l, file) == IF l.case = "revoked" THEN {file.creds} ELSE {}

\* the stored credential is expired and has a refresh token
refresh_due(file, time) ==
    file.exists /\ expired(file.creds, time) /\ file.creds.refresh_token

\* creds.valid
valid(creds, time) == creds.t = "creds" /\ ~expired(creds, time)

\* What flow.run_local_server gives: consent with or without a refresh token, or
\* an exception (the user closes the browser, the client is rejected)
FlowAnswers == {"consent", "consent_no_refresh_token", "failed"}

\* authenticate after `creds = self.token_manager.load_token()`: the credential
\* in hand, the files, and what was done so far; stages are the token file at
\* the call and after each step
auth_loaded(l, file, time, server_grant, answer) ==
    [creds |-> l.out.value, file |-> l.file, meta |-> l.meta, case |-> l.case,
     refreshed |-> load_refresh_calls(l, file),
     refresh_result |-> load_refresh_result(l, file, time, server_grant, answer),
     revoked |-> load_revoked(l, file),
     net |-> [i \in 1..Len(load_refresh_calls(l, file)) |-> "token_endpoint"],
     stages |-> <<file, l.file>>]

\* `if creds and creds.expired and creds.refresh_token:` under `not creds.valid`
refresh_again(creds, time) ==
    /\ creds.t = "creds"
    /\ ~valid(creds, time)
    /\ expired(creds, time)
    /\ creds.refresh_token

\* authenticate's own refresh and save_token; on an exception creds = None
auth_refreshed(s, r, time) ==
    IF ~refresh_again(s.creds, time)
    THEN [s EXCEPT !.stages = Append(@, s.file)]
    ELSE IF IsRaise(r)
    THEN [s EXCEPT !.creds = NoCredential,
                   !.refreshed = Append(@, s.creds),
                   !.refresh_result = r,
                   !.net = Append(@, "token_endpoint"),
                   !.stages = Append(@, s.file)]
    ELSE [s EXCEPT !.creds = r.value,
                   !.file = save_token_pickle(r.value),
                   !.meta = save_token_metadata(r.value, time),
                   !.refreshed = Append(@, s.creds),
                   !.refresh_result = r,
                   !.net = Append(@, "token_endpoint"),
                   !.stages = Append(@, save_token_pickle(r.value))]

\* the credential the OAuth flow issues
issued(time, flow_answer) ==
    Credential(time, flow_answer = "consent", time + TokenLifetime, SCOPES)

\* `if not creds:` the interactive flow and its save_token, then build(...)
auth_finished(s, time, server_grant, flow_answer) ==
    IF s.creds.t = "none" /\ flow_answer = "failed"
    THEN [out |-> Raised("GmailAuthenticationError", {}), file |-> s.file,
          meta |-> s.meta, grant |-> server_grant, service |-> NoCredential,
          case |-> s.case, refreshed |-> s.refreshed,
          refresh_result |-> s.refresh_result, revoked |-> s.revoked, flow |-> TRUE,
          net |-> Append(s.net, "authorization_endpoint"), stages |-> s.stages]
    ELSE IF s.creds.t = "none"
    THEN [out |-> Returned(TRUE), file |-> save_token_pickle(issued(time, flow_answer)),
          meta |-> save_token_metadata(issued(time, flow_answer), time),
          grant |-> "granted", service |-> issued(time, flow_answer),
          case |-> s.case, refreshed |-> s.refreshed,
          refresh_result |-> s.refresh_result, revoked |-> s.revoked, flow |-> TRUE,
          net |-> Append(s.net, "authorization_endpoint"),
          stages |-> Append(s.stages, save_token_pickle(issued(time, flow_answer)))]
    ELSE [out |-> Returned(TRUE), file |-> s.file, meta |-> s.meta,
          grant |-> server_grant, service |-> s.creds, case |-> s.case,
          refreshed |-> s.refreshed, refresh_result |-> s.refresh_result,
          revoked |-> s.revoked, flow |-> FALSE, net |-> s.net, stages |-> s.stages]

\* authenticate from load_token's outcome on; an exception of load_token is
\* wrapped by `except Exception as e: raise GmailAuthenticationError(...)`
auth_after_load(l, file, time, server_grant, answer, answer2, flow_answer) ==
    IF IsRaise(l.out)
    THEN [out |-> Raised("GmailAuthenticationError", l.out.text), file |-> l.file,
          meta |-> l.meta, grant |-> server_grant, service |-> NoCredential,
          case |-> l.case, refreshed |-> load_refresh_calls(l, file),
          refresh_result |-> load_refresh_result(l, file, time, server_grant, answer),
          revoked |-> load_revoked(l, file), flow |-> FALSE,
          net |-> [i \in 1..Len(load_refresh_calls(l, file)) |-> "token_endpoint"],
          stages |-> <<file, l.file>>]
    ELSE auth_finished(
             auth_refreshed(auth_loaded(l, file, time, server_grant, answer),
                            refresh(l.out.value, time, server_grant, answer2), time),
             time, server_grant, flow_answer)

\* ErikaGmailService.authenticate: what it returns or raises, the files, the
\* grant and the service afterwards, and what it did on the way
authenticate(file, meta, time, server_grant, config_ok, answer, answer2, flow_answer) ==
    IF ~config_ok
    THEN [out |-> Raised("GmailAuthenticationError", {}), file |-> file, meta |-> meta,
          grant |-> server_grant, service |-> NoCredential, case |-> "no_client_config",
          refreshed |-> <<>>, refresh_result |-> NoCall, revoked |-> {},
          flow |-> FALSE, net |-> <<>>, stages |-> <<file>>]
    ELSE auth_after_load(load_token(file, meta, time, server_grant, answer),
                         file, time, server_grant, answer, answer2, flow_answer)

TokenInit ==
    /\ tokenFile = NoFile
    /\ metadataFile = NoFile
    /\ now = 0
    /\ grant = "none"
    /\ loadCase = "none"
    /\ loadOutcome = NoCall
    /\ signals = [c \in LoadCases |-> Unseen]
    /\ lastOp = "none"
    /\ refreshResult = NoCall
    /\ refreshLog = <<>>
    /\ revokedTokens = {}
    /\ authInfo = NoCall
    /\ authOutcome = NoCall
    /\ service = NoCredential

\* the interactive OAuth flow of authenticate and its save_token(creds); Google
\* hands out a refresh token or not
OAuthFlow ==
    \E refresh_token \in BOOLEAN :
        LET creds == Credential(now, refresh_token, now + TokenLifetime, SCOPES) IN
        /\ tokenFile' = save_token_pickle(creds)
        /\ metadataFile' = save_token_metadata(creds, now)
        /\ grant' = "granted"
        /\ lastOp' = "flow"
        /\ refreshResult' = NoCall
        /\ refreshLog' = <<>>
        /\ UNCHANGED <<svcVars, now, loadCase, loadOutcome, signals, revokedTokens, authInfo,
                       authOutcome, service, scoreVars, mitVars,
                   mailVars>>

Tick ==
    /\ now < MaxTime
    /\ now' = now + 1
    /\ lastOp' = "tick"
    /\ UNCHANGED <<svcVars, tokenFile, metadataFile, grant, loadCase, loadOutcome, signals,
                   refreshResult, refreshLog, revokedTokens, authInfo, authOutcome,
                   service, scoreVars, mitVars,
                   mailVars>>

\* the user withdraws the grant at the provider
RevokeGrant ==
    /\ grant = "granted"
    /\ grant' = "revoked"
    /\ lastOp' = "revoke"
    /\ UNCHANGED <<svcVars, tokenFile, metadataFile, now, loadCase, loadOutcome, signals,
                   refreshResult, refreshLog, revokedTokens, authInfo, authOutcome,
                   service, scoreVars, mitVars,
                   mailVars>>

LoadToken ==
    \E answer \in RefreshAnswers :
        LET l == load_token(tokenFile, metadataFile, now, grant, answer) IN
        /\ tokenFile' = l.file
        /\ metadataFile' = l.meta
        /\ loadCase' = l.case
        /\ loadOutcome' = l.out
        /\ signals' = [signals EXCEPT ![l.case] = Signal(l.out)]
        /\ lastOp' = "load"
        /\ refreshResult' = load_refresh_result(l, tokenFile, now, grant, answer)
        /\ refreshLog' = load_refresh_calls(l, tokenFile)
        /\ revokedTokens' = revokedTokens \cup load_revoked(l, tokenFile)
        /\ UNCHANGED <<svcVars, now, grant, authInfo, authOutcome, service, scoreVars, mitVars,
                   mailVars>>

\* Where the stored credential stands: the token file is deleted only by
\* load_token's revocation branch
lifecycle(file, time, revoked) ==
    IF file.exists
    THEN (IF expired(file.creds, time) THEN "Expired" ELSE "Valid")
    ELSE IF revoked # {} THEN "Revoked" ELSE "Absent"

\* the stations of one authenticate call; Pending is the flow waiting in
\* run_local_server
lifecycle_trail(a, time, revoked) ==
    LET at(i) == lifecycle(a.stages[i], time, IF i = 1 THEN revoked
                                              ELSE revoked \cup a.revoked)
        stations == [i \in 1..Len(a.stages) |-> at(i)]
    IN  IF a.flow
        THEN SubSeq(stations, 1, 3) \o <<"Pending">> \o <<stations[Len(stations)]>>
        ELSE stations

\* authenticate(); config_ok: client_id and client_secret are configured
Authenticate ==
    \E config_ok \in BOOLEAN, answer \in RefreshAnswers, answer2 \in RefreshAnswers,
       flow_answer \in FlowAnswers :
        \E a \in {authenticate(tokenFile, metadataFile, now, grant, config_ok,
                                answer, answer2, flow_answer)} :
        /\ tokenFile' = a.file
        /\ metadataFile' = a.meta
        /\ grant' = a.grant
        /\ service' = IF a.service.t = "creds" THEN a.service ELSE service
        /\ lastOp' = "authenticate"
        /\ refreshResult' = a.refresh_result
        /\ refreshLog' = a.refreshed
        /\ revokedTokens' = revokedTokens \cup a.revoked
        /\ authInfo' = [kind |-> "call", config_ok |-> config_ok,
                        due |-> refresh_due(tokenFile, now), stored |-> tokenFile.exists,
                        case |-> a.case, flow |-> a.flow, net |-> a.net,
                        creds |-> a.service,
                        trail |-> lifecycle_trail(a, now, revokedTokens)]
        /\ authOutcome' = a.out
        /\ UNCHANGED <<svcVars, now, loadCase, loadOutcome, signals, scoreVars, mitVars,
                   mailVars>>

-----------------------------------------------------------------------------
(* Text fields: _validate_text_field and the email dicts of the providers   *)

\* A Python str is a sequence of runs of characters of one kind:
\*   "text"  printable characters other than whitespace
\*   "ws"    space, tab, newline: kept by the pattern, removed at the ends by strip()
\*   "ctl"   what the pattern [\x00-\x08\x0b-\x0c\x0e-\x1f] matches
Run(k, n) == [k |-> k, n |-> n]
Str(runs) == [t |-> "str", runs |-> runs]
NotStr == [t |-> "none", runs |-> <<>>]

MAX_SUBJECT_LENGTH == 500
MAX_BODY_LENGTH == 100000
MAX_SENDER_LENGTH == 255

RECURSIVE RunsLen(_)
\* len(text)
RunsLen(runs) == IF runs = <<>> THEN 0 ELSE Head(runs).n + RunsLen(Tail(runs))

RECURSIVE Slice(_, _)
\* text[:limit], limit >= 0
Slice(runs, limit) ==
    IF runs = <<>> \/ limit <= 0 THEN <<>>
    ELSE IF Head(runs).n <= limit
         THEN <<Head(runs)>> \o Slice(Tail(runs), limit - Head(runs).n)
         ELSE <<Run(Head(runs).k, limit)>>

\* re.sub(r'[\x00-\x08\x0b-\x0c\x0e-\x1f]', '', text)
remove_control(runs) == SelectSeq(runs, LAMBDA r : r.k # "ctl")

RECURSIVE lstrip(_)
lstrip(runs) ==
    IF runs # <<>> /\ Head(runs).k = "ws" THEN lstrip(Tail(runs)) ELSE runs

RECURSIVE rstrip(_)
rstrip(runs) ==
    IF runs # <<>> /\ runs[Len(runs)].k = "ws"
    THEN rstrip(SubSeq(runs, 1, Len(runs) - 1)) ELSE runs

\* text.strip(), on a text without control characters
strip(runs) == rstrip(lstrip(runs))

\* _validate_text_field(text, field_name, max_length)
validate_text_field(text, max_length) ==
    IF text.t # "str" THEN Raised("GmailValidationError", {"must be a string"})
    ELSE IF RunsLen(text.runs) > max_length
    THEN Raised("GmailValidationError", {"exceeds maximum length"})
    ELSE Returned(Str(strip(remove_control(text.runs))))

\* `text[:max_length] if text else ""`
safe_default(text, max_length) ==
    IF RunsLen(text.runs) = 0 THEN Str(<<>>) ELSE Str(Slice(text.runs, max_length))

EmailDict(provider, subject, sender, body) ==
    [t |-> "email", provider |-> provider, subject |-> subject, sender |-> sender,
     body |-> body]
NoEmail == [t |-> "none"]

\* ErikaGmailService._get_email_details from the three fields on: the chain of
\* validations, each assigning its field, and the except branch that truncates
\* whatever the three names hold at that moment
gmail_email_details(subject, sender, body, get_answer) ==
    IF get_answer # "ok" THEN Returned(NoEmail)
    ELSE
    LET s == validate_text_field(subject, MAX_SUBJECT_LENGTH)
        fallback(x, y, z) ==
            Returned(EmailDict("gmail", safe_default(x, MAX_SUBJECT_LENGTH),
                               safe_default(y, MAX_SENDER_LENGTH),
                               safe_default(z, MAX_BODY_LENGTH)))
    IN
    IF IsRaise(s) THEN fallback(subject, sender, body)
    ELSE
    LET n == validate_text_field(sender, MAX_SENDER_LENGTH) IN
    IF IsRaise(n) THEN fallback(s.value, sender, body)
    ELSE
    LET b == validate_text_field(body, MAX_BODY_LENGTH) IN
    IF IsRaise(b) THEN fallback(s.value, n.value, body)
    ELSE Returned(EmailDict("gmail", s.value, n.value, b.value))

\* 'No subject' and 'Unknown'
NoSubject == Str(<<Run("text", 2), Run("ws", 1), Run("text", 7)>>)
Unknown == Str(<<Run("text", 7)>>)

\* the email dict IMAPEmailService.get_unread_emails builds per message
imap_email_dict(subject, sender, body, fetch_answer) ==
    IF fetch_answer # "ok" THEN Returned(NoEmail)
    ELSE Returned(EmailDict("imap",
                            IF RunsLen(subject.runs) = 0 THEN NoSubject ELSE subject,
                            IF RunsLen(sender.runs) = 0 THEN Unknown ELSE sender,
                            body))

\* The texts a message may carry in a field whose limit is max_length: empty,
\* short, padded and with a control character, exactly at the limit, over it,
\* over it with a control character before the cut, and with one after it
FieldTexts(max_length) ==
    {Str(<<>>),
     Str(<<Run("text", 10)>>),
     Str(<<Run("ws", 1), Run("text", 10), Run("ctl", 1), Run("text", 5), Run("ws", 2)>>),
     Str(<<Run("text", max_length)>>),
     Str(<<Run("text", max_length + 1)>>),
     Str(<<Run("ctl", 1), Run("text", max_length + 5)>>),
     Str(<<Run("text", max_length), Run("ctl", 1)>>)}

Providers == {"gmail", "imap"}
GetAnswers == {"ok", "error"}

\* one message is read from the provider and made into an email dict
GetEmailDetails ==
    /\ ingestArgs.kind = "nocall"
    /\ \E provider \in Providers, subject \in FieldTexts(MAX_SUBJECT_LENGTH),
          sender \in FieldTexts(MAX_SENDER_LENGTH), body \in FieldTexts(MAX_BODY_LENGTH),
          answer \in GetAnswers :
        /\ ingestArgs' = [kind |-> "call", provider |-> provider, subject |-> subject,
                          sender |-> sender, body |-> body, answer |-> answer]
        /\ ingestResult' = IF provider = "gmail"
                           THEN gmail_email_details(subject, sender, body, answer)
                           ELSE imap_email_dict(subject, sender, body, answer)
        /\ UNCHANGED <<svcVars, mailArgs, mailResult, scoreVars, mitVars, tokenVars>>

-----------------------------------------------------------------------------
(* ErikaGmailService and IMAPEmailService: fetching and sending            *)

MAX_RESULTS == 500          \* `min(max(1, max_results), 500)`
MAX_DAYS_BACK == 30         \* `min(max(1, days_back), 30)`
MAX_THREAD_ID_LENGTH == 200 \* `len(thread_id) > 200`

\* min(max(1, value), limit)
clamp(value, limit) == Min(Max(1, value), limit)

\* len(ids[:limit]) for a list of n ids: a negative limit counts from the end
slice_len(n, limit) == IF limit >= 0 THEN Min(n, limit) ELSE Max(n + limit, 0)

\* a list of n email dicts
EmailList(n) == [t |-> "list", n |-> n]

\* what a fetch asked of the provider: the number of messages it took at most
\* and the days it looked back
NoFetch == [sent |-> FALSE, limit |-> 0, days |-> 0]
Fetch(limit, days) == [sent |-> TRUE, limit |-> limit, days |-> days]

\* What the Gmail API answers to a request
ApiAnswers == {"ok", "transport_error", "unauthorized"}

\* _validate_email_address: the pattern matched against email.strip()
validate_email_address(email) ==
    CASE email = "user@example.com"   -> TRUE
      [] email = " user@example.com " -> TRUE
      [] email = "not-an-email"       -> FALSE
      [] email = "user@localhost"     -> FALSE
      [] email = ""                   -> FALSE

Recipients == {"user@example.com", " user@example.com ", "not-an-email",
               "user@localhost", ""}

\* ErikaGmailService.get_unread_emails; svc is self.service and auth what
\* authenticate() does if it is called; inbox is the number of unread messages
\* the query matches
gmail_get_unread_emails(svc, auth, max_results, days_back, inbox, answer) ==
    LET called == svc.t # "creds"
        net0 == IF called THEN auth.net ELSE <<>>
    IN
    IF called /\ IsRaise(auth.out)
    THEN \* caught by `except Exception`
         [out |-> Returned(EmailList(0)), net |-> net0, fetch |-> NoFetch,
          situation |-> "auth_failed", auth_called |-> called]
    ELSE
    LET limit == clamp(max_results, MAX_RESULTS)
        days == clamp(days_back, MAX_DAYS_BACK)
        net1 == Append(net0, "messages.list")
        found == Min(inbox, limit)
    IN
    IF answer # "ok"
    THEN [out |-> Returned(EmailList(0)), net |-> net1, fetch |-> Fetch(limit, days),
          situation |-> IF answer = "unauthorized" THEN "auth_failed"
                        ELSE "transport_failed",
          auth_called |-> called]
    ELSE [out |-> Returned(EmailList(found)),
          net |-> net1 \o [i \in 1..Min(found, 1) |-> "messages.get"],
          fetch |-> Fetch(limit, days),
          situation |-> IF found = 0 THEN "empty" ELSE "fetched",
          auth_called |-> called]

\* What the IMAP server answers to login
LoginAnswers == {"ok", "rejected"}

\* IMAPEmailService.get_unread_emails; connected is `self._authenticated and
\* self.connection`
imap_get_unread_emails(connected, login, max_results, days_back, inbox, answer) ==
    LET net0 == IF connected THEN <<>> ELSE <<"imap.login">> IN
    IF ~connected /\ login # "ok"
    THEN \* authenticate() is called outside the try block
         [out |-> Raised("EmailAuthenticationError", {}), net |-> net0,
          fetch |-> NoFetch, situation |-> "auth_failed", auth_called |-> TRUE]
    ELSE
    LET net1 == Append(net0, "imap.search")
        found == slice_len(inbox, max_results)
    IN
    IF answer # "ok"
    THEN [out |-> Returned(EmailList(0)), net |-> net1,
          fetch |-> Fetch(max_results, days_back),
          situation |-> "transport_failed", auth_called |-> ~connected]
    ELSE [out |-> Returned(EmailList(found)),
          net |-> net1 \o [i \in 1..Min(found, 1) |-> "imap.fetch"],
          fetch |-> Fetch(max_results, days_back),
          situation |-> IF found = 0 THEN "empty" ELSE "fetched",
          auth_called |-> ~connected]

\* ErikaGmailService.send_email and create_draft, which differ in the API
\* method they call
gmail_send(method, svc, auth, to, subject, body, thread_id, answer) ==
    LET called == svc.t # "creds"
        net0 == IF called THEN auth.net ELSE <<>>
        s == validate_text_field(subject, MAX_SUBJECT_LENGTH)
        b == validate_text_field(body, MAX_BODY_LENGTH)
        bad_thread == /\ thread_id.t = "str"
                      /\ RunsLen(thread_id.runs) > MAX_THREAD_ID_LENGTH
        result(out, net, situation) ==
            [out |-> out, net |-> net, fetch |-> NoFetch, situation |-> situation,
             auth_called |-> called]
    IN
    IF called /\ IsRaise(auth.out)
    THEN result(Returned(FALSE), net0, "auth_failed")
    ELSE IF ~validate_email_address(to)
    THEN result(Raised("GmailValidationError", {"recipient"}), net0, "invalid")
    ELSE IF IsRaise(s) THEN result(s, net0, "invalid")
    ELSE IF IsRaise(b) THEN result(b, net0, "invalid")
    ELSE IF bad_thread
    THEN result(Raised("GmailValidationError", {"thread_id"}), net0, "invalid")
    ELSE IF answer = "ok" THEN result(Returned(TRUE), Append(net0, method), "sent")
    ELSE result(Returned(FALSE), Append(net0, method),
                IF answer = "unauthorized" THEN "auth_failed" ELSE "transport_failed")

FetchMaxResults == {-5, 0, 50, 501, 10000}
FetchDaysBack == {-1, 0, 7, 31}
InboxSizes == {0, 3, 600}

\* the stored credential at the start: saved at time 0
StoredAtStart(refresh_token) == Credential(0, refresh_token, TokenLifetime, SCOPES)

\* A service object is made for a token store in one of the states the token
\* manager can leave it in: nothing stored, or a credential stored at time 0
\* that is still valid or has expired, its grant standing or revoked; the
\* service is already authenticated or not.
MailInit ==
    /\ mailArgs = NoCall
    /\ mailResult = NoCall
    /\ ingestArgs = NoCall
    /\ ingestResult = NoCall
    /\ \E authed \in BOOLEAN, stored \in BOOLEAN, refresh_token \in BOOLEAN,
          time \in {0, TokenLifetime}, server_grant \in {"granted", "revoked"} :
        /\ authed => stored /\ time = 0 /\ server_grant = "granted"
        /\ ~stored => ~refresh_token /\ time = 0 /\ server_grant = "granted"
        /\ tokenFile = IF stored THEN save_token_pickle(StoredAtStart(refresh_token))
                       ELSE NoFile
        /\ metadataFile = IF stored
                          THEN save_token_metadata(StoredAtStart(refresh_token), 0)
                          ELSE NoFile
        /\ now = time
        /\ grant = IF stored THEN server_grant ELSE "none"
        /\ service = IF authed THEN StoredAtStart(refresh_token) ELSE NoCredential
    /\ loadCase = "none"
    /\ loadOutcome = NoCall
    /\ signals = [c \in LoadCases |-> Unseen]
    /\ lastOp = "none"
    /\ refreshResult = NoCall
    /\ refreshLog = <<>>
    /\ revokedTokens = {}
    /\ authInfo = NoCall
    /\ authOutcome = NoCall

\* what a call leaves of the token store and the service when it had to call
\* authenticate()
AfterAuthenticate(called, auth) ==
    /\ tokenFile' = IF called THEN auth.file ELSE tokenFile
    /\ metadataFile' = IF called THEN auth.meta ELSE metadataFile
    /\ grant' = IF called THEN auth.grant ELSE grant
    /\ service' = IF called /\ auth.service.t = "creds" THEN auth.service ELSE service
    /\ UNCHANGED <<now, loadCase, loadOutcome, signals, lastOp, refreshResult,
                   refreshLog, revokedTokens, authInfo, authOutcome>>

\* ErikaGmailService.get_unread_emails(max_results, days_back)
GmailGetUnreadEmails ==
    /\ mailArgs.kind = "nocall"
    /\ \E config_ok \in BOOLEAN, refresh_answer \in RefreshAnswers,
          flow_answer \in FlowAnswers, max_results \in FetchMaxResults,
          days_back \in FetchDaysBack, inbox \in InboxSizes, answer \in ApiAnswers :
        \E auth \in {authenticate(tokenFile, metadataFile, now, grant, config_ok,
                                   refresh_answer, refresh_answer, flow_answer)} :
        \E r \in {gmail_get_unread_emails(service, auth, max_results, days_back,
                                          inbox, answer)} :
        /\ mailArgs' = [kind |-> "call", provider |-> "gmail",
                        op |-> "get_unread_emails", max_results |-> max_results,
                        days_back |-> days_back, inbox |-> inbox]
        /\ mailResult' = r
        /\ AfterAuthenticate(r.auth_called, auth)
        /\ UNCHANGED <<svcVars, ingestArgs, ingestResult, scoreVars, mitVars>>

\* IMAPEmailService.get_unread_emails(max_results, days_back)
ImapGetUnreadEmails ==
    /\ mailArgs.kind = "nocall"
    /\ service.t = "none"
    /\ \E connected \in BOOLEAN, login \in LoginAnswers,
          max_results \in FetchMaxResults, days_back \in FetchDaysBack,
          inbox \in InboxSizes, answer \in {"ok", "transport_error"} :
        /\ mailArgs' = [kind |-> "call", provider |-> "imap",
                        op |-> "get_unread_emails", max_results |-> max_results,
                        days_back |-> days_back, inbox |-> inbox]
        /\ mailResult' = imap_get_unread_emails(connected, login, max_results,
                                                days_back, inbox, answer)
        /\ UNCHANGED <<svcVars, ingestArgs, ingestResult, scoreVars, mitVars, tokenVars>>

SendMethods == {"messages.send", "drafts.create"}
SendSubjects == {Str(<<Run("text", 10)>>), Str(<<Run("text", MAX_SUBJECT_LENGTH + 1)>>)}
SendBodies == {Str(<<Run("text", 100)>>), Str(<<Run("text", MAX_BODY_LENGTH + 1)>>)}
ThreadIds == {NotStr, Str(<<Run("text", 16)>>),
              Str(<<Run("text", MAX_THREAD_ID_LENGTH + 1)>>)}

\* ErikaGmailService.send_email / create_draft(to, subject, body, thread_id)
GmailSend ==
    /\ mailArgs.kind = "nocall"
    /\ \E config_ok \in BOOLEAN, refresh_answer \in RefreshAnswers,
          flow_answer \in FlowAnswers, method \in SendMethods, to \in Recipients,
          subject \in SendSubjects, body \in SendBodies, thread_id \in ThreadIds,
          answer \in ApiAnswers :
        \E auth \in {authenticate(tokenFile, metadataFile, now, grant, config_ok,
                                   refresh_answer, refresh_answer, flow_answer)} :
        \E r \in {gmail_send(method, service, auth, to, subject, body, thread_id,
                             answer)} :
        /\ mailArgs' = [kind |-> "call", provider |-> "gmail", op |-> method,
                        to |-> to, subject |-> subject, body |-> body,
                        thread_id |-> thread_id, authed |-> service.t = "creds"]
        /\ mailResult' = r
        /\ AfterAuthenticate(r.auth_called, auth)
        /\ UNCHANGED <<svcVars, ingestArgs, ingestResult, scoreVars, mitVars>>

-----------------------------------------------------------------------------
(* FootprintAnalyzer (services/footprint_analyzer.py)                      *)

\* _extract_domain: the same pattern as the bridge's, group(1).lower() or None
extract_domain(sender) == email_match(sender)

analyzer_personal_domains ==
    {"gmail.com", "yahoo.com", "hotmail.com", "outlook.com",
     "icloud.com", "protonmail.com", "aol.com", "mail.com",
     "yandex.com", "zoho.com", "gmx.com"}

is_personal_domain(domain) == domain \in analyzer_personal_domains

Footprint(domain, source_count, age_days, reputation) ==
    [t |-> "dict", domain |-> domain, source_count |-> Num(source_count),
     age_days |-> Num(age_days), reputation |-> reputation]

default_footprint == Footprint("unknown", 0, DEFAULT_AGE_DAYS, "unknown")

\* the record get_footprint_data builds for a domain that is not in the cache
analyze_domain(domain) ==
    IF is_personal_domain(domain)
    THEN Footprint(domain, 1, 365, "established")
    ELSE Footprint(domain, 10, 730, "established")

\* the domains that can be keys of the cache, and a key that is not in it
Domains == {email_match(s) : s \in SenderStrings} \ {None}
NotCached == [t |-> "absent"]
EmptyCache == [d \in Domains |-> NotCached]

\* get_footprint_data run by one caller alone: the record returned and the
\* cache afterwards
get_footprint_data(c, sender) ==
    LET domain == extract_domain(sender) IN
    IF domain = None THEN [out |-> default_footprint, cache |-> c]
    ELSE IF c[domain].t # "absent" THEN [out |-> c[domain], cache |-> c]
    ELSE [out |-> analyze_domain(domain),
          cache |-> [c EXCEPT ![domain] = analyze_domain(domain)]]

-----------------------------------------------------------------------------
(* The assessment of the messages of an inbox: the analyzer's record of    *)
(* each sender is the footprint_data handed to the bridge                  *)

InboxSenders == <<"Jane Doe <jane@gmail.com>", "Undisclosed recipients",
                  "bob@acme-corp.com", "eve@mail.com", "Jane Doe <jane@GMAIL.com>", "">>
InboxBodies == <<"See you at lunch on Friday", "I'm a recruiter at Acme Corp",
                 "Invoice from ACME INC. attached", "">>
InboxContentScores == <<0, 33, 50, 90, 100, 150>>

InboxSize == Len(InboxSenders) * Len(InboxBodies) * Len(InboxContentScores)

\* message number i (from 0) of the inbox: every sender with every body and
\* every content score
InboxMessage(i) ==
    [sender |-> InboxSenders[(i % Len(InboxSenders)) + 1],
     body |-> InboxBodies[((i \div Len(InboxSenders)) % Len(InboxBodies)) + 1],
     content_risk_score |->
        InboxContentScores[(i \div (Len(InboxSenders) * Len(InboxBodies))) + 1]]

AssessInit ==
    /\ cache = EmptyCache
    /\ inboxPos = 0
    /\ assessArgs = NoCall
    /\ assessResult = NoCall
    /\ recommended = {}

\* the threat analysis of one message: footprint of its sender, then the score
analyze_threat(c, m) ==
    LET f == get_footprint_data(c, m.sender) IN
    [footprint |-> f.out, cache |-> f.cache,
     analysis |-> calculate_threat_score(
                      [t |-> "dict", id |-> "m1", sender |-> m.sender, body |-> m.body],
                      f.out, Num(m.content_risk_score))]

\* the next message of the inbox is assessed
AssessNext ==
    /\ inboxPos < InboxSize
    /\ \E a \in {analyze_threat(cache, InboxMessage(inboxPos))} :
        /\ assessArgs' = [kind |-> "call", message |-> InboxMessage(inboxPos),
                          cached |-> cache]
        /\ assessResult' = [kind |-> "return", footprint |-> a.footprint,
                            analysis |-> a.analysis.value]
        /\ cache' = a.cache
        /\ recommended' = recommended \cup {a.analysis.value.mitigation_action_recommended}
        /\ inboxPos' = inboxPos + 1
    /\ UNCHANGED <<phishVars, gatewayVars, lookupVars, clientVars, scoreVars, mitVars, tokenVars,
                   mailVars>>

-----------------------------------------------------------------------------
(* ReverseImageSearchService (services/reverse_image_search.py)            *)
(* Risk scores are in the same fixed-point unit as the threat score.       *)

\* a match of the image search: the domain it was found on and its title
Match(domain, title) == [domain |-> domain, title |-> title]

\* _extract_identity on the titles used here, by its patterns: a capitalised
\* name, the first role word the lowered text holds; None when nothing is found
NoIdentity == [t |-> "none", name |-> None, role |-> None]
Identity(name, role) == [t |-> "identity", name |-> name, role |-> role]

extract_identity(title) ==
    CASE title = "John Doe - Recruiter" -> Identity("John Doe", "recruiter")
      [] title = "John Doe, Lawyer"     -> Identity("John Doe", "lawyer")
      [] title = "Jane Roe"             -> Identity("Jane Roe", None)
      [] title = "top realtor listings" -> Identity(None, "realtor")
      [] OTHER                          -> NoIdentity

\* the category _categorize_identities gives a role
role_category(role) ==
    CASE role \in {"recruiter", "headhunter"} -> "recruiter"
      [] role \in {"real estate", "realtor"}  -> "real_estate"
      [] role \in {"attorney", "lawyer"}      -> "legal"
      [] role \in {"director", "manager"}     -> "corporate"
      [] OTHER                                -> "other"

\* _categorize_identities: identity.get('role', '') is None for an identity
\* without a role, and None has no lower()
categorize_identities(identities) ==
    IF \E i \in 1..Len(identities) : identities[i].role = None
    THEN Raised("AttributeError", {})
    ELSE Returned({role_category(identities[i].role) : i \in 1..Len(identities)})

is_facebook(domain) == domain = "facebook.com"
is_suspicious_domain(domain) == domain = "smithlaw.com"

\* the identities of the matches with a title, in the order of the matches
RECURSIVE identities_of(_)
identities_of(matches) ==
    IF matches = <<>> THEN <<>>
    ELSE LET m == Head(matches)
             identity == IF m.title = "" THEN NoIdentity ELSE extract_identity(m.title)
         IN  IF identity.t = "none" THEN identities_of(Tail(matches))
             ELSE <<identity>> \o identities_of(Tail(matches))

domains_of(matches) == {matches[i].domain : i \in 1..Len(matches)} \ {""}

\* the sum of the four patterns of _analyze_results, capped at 1.0
pattern_risk(matches, identity_types) ==
    Min((IF Cardinality(domains_of(matches)) > 3 THEN 2000 ELSE 0)
        + (IF Cardinality(identity_types) > 1 THEN 4000 ELSE 0)
        + 3000 * Cardinality({i \in 1..Len(matches) : is_facebook(matches[i].domain)})
        + 2000 * Cardinality({d \in domains_of(matches) : is_suspicious_domain(d)}),
        10000)

\* _generate_analysis_text is handed the set of domains and slices it
\* (domains[:5]) when it is not empty: a set cannot be sliced
generate_analysis_text(domains) ==
    IF domains # {} THEN Raised("TypeError", {}) ELSE Returned("text")

\* _analyze_results
analyze_results(matches) ==
    LET types == categorize_identities(identities_of(matches)) IN
    IF IsRaise(types) THEN types
    ELSE IF IsRaise(generate_analysis_text(domains_of(matches)))
    THEN generate_analysis_text(domains_of(matches))
    ELSE Returned([identities |-> identities_of(matches),
                   risk_score |-> pattern_risk(matches, types.value)])

\* what the Google Lens search does: matches, or an import or browser failure
LensAnswers == {"ok", "import_error", "error"}

\* _perform_google_search: both failures are logged and give no matches
perform_google_search(lens, matches) == IF lens = "ok" THEN matches ELSE <<>>

SearchResult(matches, identities, risk_score, failed) ==
    [matches |-> matches, identities |-> identities, risk_score |-> risk_score,
     failed |-> failed]

\* search_image: the except branch gives the unknown risk 0.5
search_image(lens, matches) ==
    LET results == perform_google_search(lens, matches)
        analysis == analyze_results(results)
    IN  IF IsRaise(analysis) /\ Catches("Exception", analysis.cls)
        THEN SearchResult(<<>>, <<>>, 5000, TRUE)
        ELSE SearchResult(results, analysis.value.identities,
                          analysis.value.risk_score, FALSE)

\* email_data.get('sender', '').split('<')[0].strip().lower() of the senders
\* used here
claimed_name_lower(sender) ==
    CASE sender = "John Doe <john@acme-corp.com>" -> "john doe"
      [] sender = "Jane Doe <jane@gmail.com>"     -> "jane doe"
      [] sender = "Dr. John Doe <jd@example.org>" -> "dr. john doe"
      [] sender = "bob@acme-corp.com"             -> "bob@acme-corp.com"
      [] OTHER                                    -> ""

lower(name) ==
    CASE name = "John Doe" -> "john doe"
      [] name = "Jane Roe" -> "jane roe"
      [] OTHER             -> name

\* `needle in haystack` of the lowered names used here
contains(haystack, needle) ==
    \/ needle = ""
    \/ needle = haystack
    \/ (haystack = "dr. john doe" /\ needle = "john doe")

\* the loop over the identities: "mismatch" at the first identity whose name
\* differs, "none" when the loop ends, and the AttributeError of None.lower()
RECURSIVE name_mismatch(_, _)
name_mismatch(identities, claimed) ==
    IF identities = <<>> THEN Returned(FALSE)
    ELSE IF Head(identities).name = None THEN Raised("AttributeError", {})
    ELSE LET identity_name == lower(Head(identities).name) IN
         IF /\ identity_name # ""
            /\ ~contains(claimed, identity_name)
            /\ ~contains(identity_name, claimed)
         THEN Returned(TRUE)
         ELSE name_mismatch(Tail(identities), claimed)

Verification(verified, risk_score, searched, search_failed) ==
    [verified |-> verified, risk_score |-> risk_score, searched |-> searched,
     search_failed |-> search_failed]

\* the end of verify_email_sender: the increment, then verified
verify_finish(search, mismatch) ==
    LET risk_score == IF mismatch THEN Min(search.risk_score + 2000, 10000)
                      ELSE search.risk_score
    IN  Verification(risk_score < 4000, risk_score, TRUE, search.failed)

\* verify_email_sender
verify_after_search(search, claimed) ==
    IF claimed = "" \/ search.identities = <<>>
    THEN Returned(verify_finish(search, FALSE))
    ELSE LET m == name_mismatch(search.identities, claimed) IN
         IF IsRaise(m) THEN m ELSE Returned(verify_finish(search, m.value))

verify_email_sender(sender, has_image, lens, matches) ==
    IF ~has_image THEN Returned(Verification(FALSE, 5000, FALSE, FALSE))
    ELSE verify_after_search(search_image(lens, matches), claimed_name_lower(sender))

-----------------------------------------------------------------------------
(* PhishingDetector.analyze_email and the phishing step of                 *)
(* ErikaGmailService._get_email_details                                    *)

\* the analysis dict; confidence in hundredths, note is the kind of the
\* indicator analyze_email added before it returned
Analysis(is_phishing, confidence, risk_score, note) ==
    [t |-> "analysis", is_phishing |-> is_phishing, confidence |-> confidence,
     risk_score |-> risk_score, note |-> note]
NoAnalysis == [t |-> "none", is_phishing |-> FALSE, confidence |-> 0, risk_score |-> 0,
               note |-> "none"]

\* the try block of analyze_email once both searches are done
analysis_of(search_results, verification) ==
    IF verification.risk_score >= 7000
    THEN Analysis(TRUE, 90, verification.risk_score, "critical")
    ELSE Analysis(FALSE, IF search_results.matches # <<>> THEN 80 ELSE 30,
                  verification.risk_score, "none")

\* analyze_email: ready is whether the detector could import the image search
\* and the image extractor; lens1 and lens2 are what the Lens search does in
\* search_image and in the search verify_email_sender makes itself
analyze_email(ready, has_images, lens1, lens2, matches, sender) ==
    IF ~ready THEN Analysis(FALSE, 0, 0, "warning")
    ELSE IF ~has_images THEN Analysis(FALSE, 0, 0, "info")
    ELSE LET v == verify_email_sender(sender, TRUE, lens2, matches) IN
         IF IsRaise(v) /\ Catches("Exception", v.cls)
         THEN Analysis(FALSE, 0, 0, "error")
         ELSE analysis_of(search_image(lens1, matches), v.value)

\* _check_phishing: None when a switch is off or the detector cannot be imported
\* (self holds the two switches and whether the detector imports)
check_phishing(self, ready, has_images, lens1, lens2, matches, sender) ==
    IF ~self.phishing_enabled \/ ~self.reverse_search_enabled \/ ~self.detector_imports
    THEN NoAnalysis
    ELSE analyze_email(ready, has_images, lens1, lens2, matches, sender)

\* the phishing fields _get_email_details adds to the email dict: none when
\* the check is off or gave None
PhishingFields(analysis) ==
    [delivered |-> TRUE, has_analysis |-> analysis.t = "analysis",
     is_phishing |-> analysis.is_phishing,
     phishing_risk_score |-> analysis.risk_score, note |-> analysis.note]

email_phishing_fields(self, ready, has_images, lens1, lens2, matches, sender) ==
    IF ~self.phishing_enabled THEN PhishingFields(NoAnalysis)
    ELSE PhishingFields(check_phishing(self, ready, has_images, lens1, lens2, matches,
                                       sender))

\* the match lists a search may give
MatchLists ==
    {<<>>,
     <<Match("linkedin.com", "John Doe - Recruiter")>>,
     <<Match("", "John Doe - Recruiter")>>,
     <<Match("", "John Doe - Recruiter"), Match("", "John Doe, Lawyer")>>,
     <<Match("", "Jane Roe")>>,
     <<Match("", "top realtor listings")>>,
     <<Match("linkedin.com", "IMG_0042"), Match("example.org", "IMG_0042"),
       Match("pinterest.com", "IMG_0042"), Match("acme-corp.com", "IMG_0042")>>,
     <<Match("facebook.com", "John Doe - Recruiter"),
       Match("facebook.com", "John Doe, Lawyer"),
       Match("smithlaw.com", "John Doe, Lawyer")>>}

VerifySenders == {"John Doe <john@acme-corp.com>", "Jane Doe <jane@gmail.com>",
                  "Dr. John Doe <jd@example.org>", "bob@acme-corp.com", "<x@example.org>"}

PhishInit ==
    /\ verifyArgs = NoCall
    /\ verifyResult = NoCall
    /\ phishArgs = NoCall
    /\ phishResult = NoCall

\* one call of verify_email_sender, on a service that has made no call yet
VerifyEmailSender ==
    /\ verifyArgs.kind = "nocall" /\ phishArgs.kind = "nocall"
    /\ \E sender \in VerifySenders, has_image \in BOOLEAN, lens \in LensAnswers,
          matches \in MatchLists :
        /\ verifyArgs' = [kind |-> "call", sender |-> sender, has_image |-> has_image,
                          lens |-> lens, matches |-> matches]
        /\ verifyResult' = verify_email_sender(sender, has_image, lens, matches)
    /\ UNCHANGED <<phishArgs, phishResult, gatewayVars, lookupVars, clientVars, assessVars,
                   scoreVars, mitVars, tokenVars, mailVars>>

\* the phishing step of _get_email_details for one message
CheckPhishing ==
    /\ verifyArgs.kind = "nocall" /\ phishArgs.kind = "nocall"
    /\ \E phishing_enabled \in BOOLEAN, reverse_search_enabled \in BOOLEAN,
          detector_imports \in BOOLEAN, ready \in BOOLEAN, has_images \in BOOLEAN,
          lens1 \in LensAnswers, lens2 \in LensAnswers, matches \in MatchLists,
          sender \in VerifySenders :
        /\ phishArgs' = [kind |-> "call", phishing_enabled |-> phishing_enabled,
                         reverse_search_enabled |-> reverse_search_enabled,
                         detector_imports |-> detector_imports, ready |-> ready,
                         has_images |-> has_images, lens1 |-> lens1, lens2 |-> lens2,
                         matches |-> matches, sender |-> sender]
        /\ phishResult' =
              Returned(email_phishing_fields(
                  [phishing_enabled |-> phishing_enabled,
                   reverse_search_enabled |-> reverse_search_enabled,
                   detector_imports |-> detector_imports],
                  ready, has_images, lens1, lens2, matches, sender))
    /\ UNCHANGED <<verifyArgs, verifyResult, gatewayVars, lookupVars, clientVars, assessVars,
                   scoreVars, mitVars, tokenVars, mailVars>>

-----------------------------------------------------------------------------
(* ErikaEgoLlamaGateway.sync_email (services/egollama_gateway.py)          *)
(* A text may also hold runs of markup characters ("markup": <, >, &,      *)
(* quotes), which html.escape replaces by entities ("entity").             *)

\* the values an email record may hold under a key
Absent     == [t |-> "absent", runs |-> <<>>]
Secret     == [t |-> "secret", runs |-> <<>>]
RawMessage == [t |-> "raw_message", runs |-> <<>>]

text_fields == {"subject", "body", "content", "sender", "recipient"}
sensitive_fields == {"raw_message", "raw_payload", "credentials", "token"}

max_lengths(field) ==
    CASE field = "subject"               -> MAX_SUBJECT_LENGTH
      [] field \in {"sender", "recipient"} -> MAX_SENDER_LENGTH
      [] OTHER                           -> MAX_BODY_LENGTH

\* html.escape: every markup character becomes an entity of four characters
\* or more; four is the length of the shortest, &lt;
html_escape(runs) ==
    [i \in 1..Len(runs) |->
        IF runs[i].k = "markup" THEN Run("entity", 4 * runs[i].n) ELSE runs[i]]

\* the loop body for one text field: strip control characters, escape, cut
sanitize_text(field, value) ==
    Str(Slice(html_escape(remove_control(value.runs)), max_lengths(field)))

\* _sanitize_email_content: a copy of the record with its text fields
\* sanitized and its sensitive fields removed
sanitize_email_content(email_data) ==
    [k \in DOMAIN email_data |->
        IF k \in sensitive_fields THEN Absent
        ELSE IF k \in text_fields /\ email_data[k].t = "str" /\ email_data[k].runs # <<>>
        THEN sanitize_text(k, email_data[k])
        ELSE email_data[k]]

\* what the gateway answers to the POST
GatewayAnswers == {"200", "500", "connection_error"}

NoPayload == [sent |-> FALSE]

\* sync_email: the payload posted, what the caller gets and the caller's record
\* after the call; the record is copied before anything is changed
sync_email(email_data, answer) ==
    [payload |-> [sent |-> TRUE, action |-> "store_erika_email",
                  email_data |-> sanitize_email_content(email_data)],
     record |-> email_data,
     out |-> CASE answer = "200" -> Returned("result")
               [] answer = "500" -> Returned(None)
               [] OTHER -> Raised("EgoLlamaGatewayConnectionError", {})]

CleanText == Str(<<Run("text", 10)>>)
RawText   == Str(<<Run("ctl", 1), Run("markup", 2), Run("text", 10), Run("ws", 1)>>)

\* the email records handed to sync_email: the fields of an email dict of the
\* mail service, and keys of credential material
EmailRecords ==
    [subject : {Absent, Str(<<>>), CleanText, RawText,
                Str(<<Run("markup", 200), Run("text", 300)>>)},
     body : {Str(<<>>), CleanText, RawText},
     sender : {Absent, CleanText, RawText},
     date : {Absent, CleanText, RawText},
     raw_message : {Absent, RawMessage},
     credentials : {Absent, Secret},
     token : {Absent, Secret},
     refresh_token : {Absent, Secret},
     client_secret : {Absent, Secret}]

GatewayInit ==
    /\ syncArgs = NoCall
    /\ syncResult = NoCall
    /\ gatewayPayload = NoPayload

\* one call of sync_email
SyncEmail ==
    /\ syncArgs.kind = "nocall"
    /\ \E email_data \in EmailRecords, answer \in GatewayAnswers :
        /\ syncArgs' = [kind |-> "call", email_data |-> email_data, answer |-> answer]
        /\ syncResult' = [kind |-> "done", out |-> sync_email(email_data, answer).out,
                          record |-> sync_email(email_data, answer).record]
        /\ gatewayPayload' = sync_email(email_data, answer).payload
    /\ UNCHANGED <<assessVars, phishVars, lookupVars, clientVars, scoreVars, mitVars, tokenVars,
                   mailVars>>

-----------------------------------------------------------------------------
(* FootprintAnalyzer used by several threads at once: get_footprint_data   *)
(* step by step, each step one access to the shared dict self.cache        *)

Threads == {1, 2}

NoRecord == [t |-> "none"]

LookupInit ==
    /\ lookupPc = [t \in Threads |-> "idle"]
    /\ lookupSender = [t \in Threads |-> ""]
    /\ lookupOut = [t \in Threads |-> NoRecord]

\* a thread calls get_footprint_data: the domain is extracted, and a sender
\* without one gets the default record at once
BeginLookup(t) ==
    /\ lookupPc[t] \in {"idle", "done"}
    /\ \E sender \in SenderStrings :
        /\ lookupSender' = [lookupSender EXCEPT ![t] = sender]
        /\ IF extract_domain(sender) = None
           THEN /\ lookupPc' = [lookupPc EXCEPT ![t] = "done"]
                /\ lookupOut' = [lookupOut EXCEPT ![t] = default_footprint]
           ELSE /\ lookupPc' = [lookupPc EXCEPT ![t] = "check"]
                /\ lookupOut' = [lookupOut EXCEPT ![t] = NoRecord]
    /\ UNCHANGED cache

\* `if domain in self.cache:`
CheckCache(t) ==
    /\ lookupPc[t] = "check"
    /\ lookupPc' = [lookupPc EXCEPT ![t] =
          IF cache[extract_domain(lookupSender[t])].t # "absent" THEN "read" ELSE "store"]
    /\ UNCHANGED <<cache, lookupSender, lookupOut>>

\* `return self.cache[domain]`: the KeyError of a key that is gone is caught by
\* the except branch, which returns the default record
ReadCache(t) ==
    /\ lookupPc[t] = "read"
    /\ lookupOut' = [lookupOut EXCEPT ![t] =
          IF cache[extract_domain(lookupSender[t])].t = "absent"
          THEN default_footprint
          ELSE cache[extract_domain(lookupSender[t])]]
    /\ lookupPc' = [lookupPc EXCEPT ![t] = "done"]
    /\ UNCHANGED <<cache, lookupSender>>

\* the record is built, `self.cache[domain] = footprint`, and it is returned
StoreCache(t) ==
    /\ lookupPc[t] = "store"
    /\ cache' = [cache EXCEPT ![extract_domain(lookupSender[t])] =
                    analyze_domain(extract_domain(lookupSender[t]))]
    /\ lookupOut' = [lookupOut EXCEPT ![t] =
                        analyze_domain(extract_domain(lookupSender[t]))]
    /\ lookupPc' = [lookupPc EXCEPT ![t] = "done"]
    /\ UNCHANGED lookupSender

\* clear_cache, by any thread
ClearCache ==
    /\ cache' = EmptyCache
    /\ UNCHANGED <<lookupPc, lookupSender, lookupOut>>

LookupFrame ==
    UNCHANGED <<inboxPos, assessArgs, assessResult, recommended, phishVars, gatewayVars,
                clientVars,
                scoreVars, mitVars, tokenVars, mailVars>>

Lookup ==
    /\ \E t \in Threads : BeginLookup(t) \/ CheckCache(t) \/ ReadCache(t) \/ StoreCache(t)
    /\ LookupFrame

Clear == ClearCache /\ LookupFrame

-----------------------------------------------------------------------------
(* ErikaPluginClient (plugin/plugin_client.py): the keep-alive loop and    *)
(* the gateway it talks to                                                 *)

\* what the gateway answers to the POST of register_plugin
PostAnswers == {"200", "500", "connection_error"}

\* The gateway is "flaky" (any request may fail, it may restart and forget its
\* plugins) until it becomes "stable": healthy for good, accepting every
\* registration and answering every request.
HealthAnswers(mode) == IF mode = "stable" THEN {TRUE} ELSE BOOLEAN
PostAnswersIn(mode) == IF mode = "stable" THEN {"200"} ELSE PostAnswers
InfoAnswers(mode)   == IF mode = "stable" THEN {TRUE} ELSE BOOLEAN

Client(flag, known, reg) == [registered |-> flag, known |-> known, reg |-> reg]

\* register_plugin: the health check, then the POST; only a 200 touches
\* self.registered. reg tells how the call ended.
register_plugin(flag, known, health, post) ==
    IF ~health THEN Client(flag, known, "unhealthy")
    ELSE IF post = "200" THEN Client(TRUE, TRUE, "ok")
    ELSE Client(flag, known, post)

\* get_plugin_info: the plugin record, or None when the gateway does not list
\* the plugin or the request fails
get_plugin_info(known, info_answered) == info_answered /\ known

\* one pass of the while loop of keep_alive after the sleep
keep_alive_pass(flag, known, health1, health2, post, info_answered) ==
    IF ~health1 THEN register_plugin(FALSE, known, health2, post)
    ELSE IF ~flag THEN register_plugin(flag, known, health2, post)
    ELSE IF ~get_plugin_info(known, info_answered)
    THEN register_plugin(flag, known, health2, post)
    ELSE Client(flag, known, "none")

\* what the pass learnt from get_plugin_info, when it came to ask
info_step(flag, known, health1, info_answered) ==
    IF ~health1 \/ ~flag THEN "not_asked"
    ELSE IF get_plugin_info(known, info_answered) THEN "listed"
    ELSE IF info_answered THEN "not_listed"
    ELSE "request_failed"

\* unregister_plugin: only a 200 clears self.registered
unregister_plugin(flag, known, delete_ok) ==
    IF delete_ok THEN Client(FALSE, FALSE, "none") ELSE Client(flag, known, "none")

NoPass == [kind |-> "none"]

\* the loop runs for ever; passes beyond this one are not told apart
MaxPasses == 3

KeepAliveInit ==
    /\ registered = FALSE
    /\ gatewayMode = "flaky"
    /\ gatewayKnows = FALSE
    /\ lastPass = NoPass
    /\ passes = 0

\* the client registers at start-up, before the loop
RegisterPlugin ==
    /\ lastPass.kind = "none"
    /\ \E health \in HealthAnswers(gatewayMode), post \in PostAnswersIn(gatewayMode) :
       \E c \in {register_plugin(registered, gatewayKnows, health, post)} :
        /\ registered' = c.registered
        /\ gatewayKnows' = c.known
        /\ lastPass' = [kind |-> "register", healthy |-> health, info |-> "not_asked",
                        reg |-> c.reg]
    /\ UNCHANGED <<gatewayMode, passes>>

\* one pass of the keep-alive loop
KeepAlivePass ==
    /\ \E health1 \in HealthAnswers(gatewayMode), health2 \in HealthAnswers(gatewayMode),
          post \in PostAnswersIn(gatewayMode), info_answered \in InfoAnswers(gatewayMode) :
       \E c \in {keep_alive_pass(registered, gatewayKnows, health1, health2, post,
                                 info_answered)} :
        /\ registered' = c.registered
        /\ gatewayKnows' = c.known
        /\ lastPass' = [kind |-> "pass", healthy |-> health1,
                        info |-> info_step(registered, gatewayKnows, health1,
                                           info_answered),
                        reg |-> c.reg]
    /\ passes' = Min(passes + 1, MaxPasses)
    /\ UNCHANGED gatewayMode

\* the plugin unregisters
UnregisterPlugin ==
    /\ gatewayMode = "flaky"
    /\ \E delete_ok \in BOOLEAN :
       \E c \in {unregister_plugin(registered, gatewayKnows, delete_ok)} :
        /\ registered' = c.registered
        /\ gatewayKnows' = c.known
        /\ lastPass' = [kind |-> "unregister", healthy |-> delete_ok,
                        info |-> "not_asked", reg |-> c.reg]
    /\ UNCHANGED <<gatewayMode, passes>>

\* the gateway restarts and has no plugin registered
GatewayRestart ==
    /\ gatewayMode = "flaky"
    /\ gatewayKnows' = FALSE
    /\ UNCHANGED <<registered, gatewayMode, lastPass, passes>>

\* from now on the gateway stays healthy and accepts registrations
GatewayStabilizes ==
    /\ gatewayMode = "flaky"
    /\ gatewayMode' = "stable"
    /\ UNCHANGED <<registered, gatewayKnows, lastPass, passes>>

KeepAliveFrame ==
    UNCHANGED <<assessVars, phishVars, gatewayVars, lookupVars, scoreVars, mitVars,
                tokenVars, mailVars>>

Client_Register   == RegisterPlugin /\ KeepAliveFrame
Client_Pass       == KeepAlivePass /\ KeepAliveFrame
Client_Unregister == UnregisterPlugin /\ KeepAliveFrame
Gateway_Restart   == GatewayRestart /\ KeepAliveFrame
Gateway_Stable    == GatewayStabilizes /\ KeepAliveFrame

-----------------------------------------------------------------------------
(* Specifications                                                          *)

ScoreIdle == scoreArgs = NoCall /\ scoreResult = NoCall

MailIdle ==
    /\ mailArgs = NoCall
    /\ mailResult = NoCall
    /\ ingestArgs = NoCall
    /\ ingestResult = NoCall

MitIdle ==
    /\ labels = {"INBOX", "UNREAD"}
    /\ prevLabels = labels
    /\ mitArgs = NoCall
    /\ mitResult = NoCall
    /\ providerRequest = NoRequest
    /\ lastApplied = NoAction
    /\ appliedTwice = FALSE

SvcIdle == AssessInit /\ PhishInit /\ GatewayInit /\ LookupInit /\ KeepAliveInit

\* the scoring engine
InitScore == ScoreInit /\ MitIdle /\ TokenInit /\ MailIdle /\ SvcIdle
NextScore == ScoreCall
SpecScore == InitScore /\ [][NextScore]_vars

\* the mitigation executor and the mailbox
InitMitigate == ScoreIdle /\ MitInit /\ TokenInit /\ MailIdle /\ SvcIdle
NextMitigate == RequestClientMitigation
SpecMitigate == InitMitigate /\ [][NextMitigate]_vars

\* the token manager, the clock and the authorization server
InitToken == ScoreIdle /\ MitIdle /\ TokenInit /\ MailIdle /\ SvcIdle
NextToken == OAuthFlow \/ Tick \/ RevokeGrant \/ LoadToken
SpecToken == InitToken /\ [][NextToken]_vars

\* ErikaGmailService.authenticate over the token store, the clock and the
\* authorization server
InitAuth == ScoreIdle /\ MitIdle /\ TokenInit /\ MailIdle /\ SvcIdle
NextAuth == Authenticate \/ Tick \/ RevokeGrant
SpecAuth == InitAuth /\ [][NextAuth]_vars

\* one call of a mail service over a token store
InitMail == ScoreIdle /\ MitIdle /\ MailInit /\ SvcIdle
NextMail == GmailGetUnreadEmails \/ ImapGetUnreadEmails \/ GmailSend
SpecMail == InitMail /\ [][NextMail]_vars

\* one message read by a provider's service
InitIngest == ScoreIdle /\ MitIdle /\ TokenInit /\ MailIdle /\ SvcIdle
NextIngest == GetEmailDetails
SpecIngest == InitIngest /\ [][NextIngest]_vars

\* the analyzer and the bridge over the messages of an inbox
InitAssess == ScoreIdle /\ MitIdle /\ TokenInit /\ MailIdle /\ SvcIdle
NextAssess == AssessNext
SpecAssess == InitAssess /\ [][NextAssess]_vars

\* one call of the sender verification, one phishing check of a message
InitPhish == ScoreIdle /\ MitIdle /\ TokenInit /\ MailIdle /\ SvcIdle
NextPhish == VerifyEmailSender \/ CheckPhishing
SpecPhish == InitPhish /\ [][NextPhish]_vars

\* one email record synced to the gateway
InitGateway == ScoreIdle /\ MitIdle /\ TokenInit /\ MailIdle /\ SvcIdle
NextGateway == SyncEmail
SpecGateway == InitGateway /\ [][NextGateway]_vars

\* threads sharing one analyzer
InitFootprint == ScoreIdle /\ MitIdle /\ TokenInit /\ MailIdle /\ SvcIdle
NextFootprint == Lookup \/ Clear
SpecFootprint == InitFootprint /\ [][NextFootprint]_vars

\* the plugin client and the gateway
InitKeepAlive == ScoreIdle /\ MitIdle /\ TokenInit /\ MailIdle /\ SvcIdle
NextKeepAlive == Client_Register \/ Client_Pass \/ Client_Unregister \/ Gateway_Restart
                    \/ Gateway_Stable
SpecKeepAlive == InitKeepAlive /\ [][NextKeepAlive]_vars

\* the loop's thread keeps running: while True, with a sleep between passes
SpecKeepAliveFair == SpecKeepAlive /\ WF_vars(Client_Pass)

\* The components are checked each under its own specification, and Spec
\* composes them.
Init == InitToken
Next == NextScore \/ NextMitigate \/ NextToken \/ NextAuth \/ NextIngest \/ NextMail
           \/ NextAssess \/ NextPhish \/ NextGateway \/ NextFootprint \/ NextKeepAlive
Spec == Init /\ [][Next]_vars

-----------------------------------------------------------------------------
(* Properties of calculate_threat_score, checked under SpecScore           *)

ScoreCalled   == scoreResult.kind # "nocall"
ScoreReturned == scoreResult.kind = "return"
ScoreSum(b)   == b.footprint_risk + b.domain_mismatch_risk + b.content_risk

\* C1: every call returns a threat_score within [0, 1] that equals the sum of
\* the three breakdown components of the same result, on every return path,
\* the except path included.
C1_ScoreIsSumOfBreakdown ==
    ScoreCalled =>
        /\ ScoreReturned
        /\ scoreResult.value.threat_score >= 0
        /\ scoreResult.value.threat_score <= SCORE_CAP
        /\ scoreResult.value.threat_score = ScoreSum(scoreResult.value.scoring_breakdown)

\* C2: in every result footprint_risk <= 0.40, domain_mismatch_risk <= 0.30 and
\* content_risk <= 0.30, also for a content_risk_score outside [0, 1], and the
\* three never sum to more than 1.0.
C2_ComponentCaps ==
    ScoreCalled =>
        /\ ScoreReturned
        /\ scoreResult.value.scoring_breakdown.footprint_risk <= 4000
        /\ scoreResult.value.scoring_breakdown.domain_mismatch_risk <= 3000
        /\ scoreResult.value.scoring_breakdown.content_risk <= 3000
        /\ ScoreSum(scoreResult.value.scoring_breakdown) <= 10000

\* a content_risk_score of 1.5 with every other contribution at its cap
C2_Witness ==
    /\ ScoreReturned
    /\ scoreArgs.content_risk_score = Num(150)
    /\ scoreResult.value.scoring_breakdown = Breakdown(4000, 3000, 3000)

\* C3: the recommended action is decided by the returned threat_score alone:
\* MARK_AS_PHISHING exactly from 0.8, FLAG exactly in [0.5, 0.8), NONE exactly
\* below 0.5.
C3_ActionByThreshold ==
    ScoreCalled =>
        /\ ScoreReturned
        /\ scoreResult.value.mitigation_action_recommended
              \in {"MARK_AS_PHISHING", "FLAG", "NONE"}
        /\ (scoreResult.value.mitigation_action_recommended = "MARK_AS_PHISHING")
              <=> (scoreResult.value.threat_score >= 8000)
        /\ (scoreResult.value.mitigation_action_recommended = "FLAG")
              <=> (scoreResult.value.threat_score >= 5000
                   /\ scoreResult.value.threat_score < 8000)
        /\ (scoreResult.value.mitigation_action_recommended = "NONE")
              <=> (scoreResult.value.threat_score < 5000)

\* a computed score of exactly 0.8 (0.20 + 0.30 + 0.30), marked as phishing
C3_Witness ==
    /\ ScoreReturned
    /\ scoreResult.value.scoring_breakdown = Breakdown(2000, 3000, 3000)
    /\ scoreResult.value.threat_score = 8000
    /\ scoreResult.value.mitigation_action_recommended = "MARK_AS_PHISHING"

\* some step of the computation raised, whether or not a handler swallowed it
ComputationFailed(args) ==
    \/ IsRaise(calculate_threat_score_body(args.email_analysis, args.footprint_data,
                                           args.content_risk_score))
    \/ /\ args.email_analysis.t = "dict"
       /\ IsRaise(detect_domain_mismatch_body(
                      DictGet(args.email_analysis, "sender", ""),
                      DictGet(args.email_analysis, "body", "")))

\* C4: a call in which any step of the computation fails does not raise and
\* returns threat_score 0.5 with action FLAG, never NONE.
C4_FailureGivesFlag ==
    (ScoreCalled /\ ComputationFailed(scoreArgs)) =>
        /\ ScoreReturned
        /\ scoreResult.value.threat_score = 5000
        /\ scoreResult.value.mitigation_action_recommended = "FLAG"

-----------------------------------------------------------------------------
(* Properties of request_client_mitigation, checked under SpecMitigate     *)

MitCalled   == mitResult.kind # "nocall"
MitReturned == mitResult.kind = "return"
SupportedActions == {"MARK_AS_PHISHING", "MARK_AS_SPAM", "MARK_AS_READ"}

\* C5: for a supported action and a credential whose scopes lack gmail.modify
\* (a missing or empty scope set included) the result is FAILURE with
\* INSUFFICIENT_SCOPE and the provider is not called.
C5_ScopeCheckedBeforeCall ==
    (/\ MitCalled
     /\ mitArgs.mitigation_action \in SupportedActions
     /\ mitArgs.creds.t = "creds"
     /\ (mitArgs.creds.scopes_t = "none" \/ GMAIL_MODIFY \notin mitArgs.creds.scopes))
    =>
        /\ MitReturned
        /\ mitResult.value.status = "FAILURE"
        /\ mitResult.value.error_code = "INSUFFICIENT_SCOPE"
        /\ ~providerRequest.sent

\* C6 as stated: every result, SUCCESS or FAILURE, reports the labels the
\* requested action attempted to add and to remove.
C6_ResultReportsAttemptedLabels ==
    MitCalled =>
        /\ MitReturned
        /\ mitResult.value.labels_applied
              = mitigation_labels(mitArgs.mitigation_action).add_labels
        /\ mitResult.value.labels_removed
              = mitigation_labels(mitArgs.mitigation_action).remove_labels

\* C6 amended: a SUCCESS result reports the labels the action added and
\* removed; a FAILURE result names the action and reports both lists empty,
\* also when the provider call was made and failed.
C6_LabelsReportedOnSuccessOnly ==
    MitCalled =>
        /\ MitReturned
        /\ mitResult.value.action = mitArgs.mitigation_action
        /\ mitResult.value.status = "SUCCESS" =>
              /\ mitResult.value.labels_applied
                    = mitigation_labels(mitArgs.mitigation_action).add_labels
              /\ mitResult.value.labels_removed
                    = mitigation_labels(mitArgs.mitigation_action).remove_labels
        /\ mitResult.value.status = "FAILURE" =>
              /\ mitResult.value.labels_applied = <<>>
              /\ mitResult.value.labels_removed = <<>>

\* both kinds have happened in one state: the provider call for
\* MARK_AS_PHISHING was made and failed
C6_Witness ==
    /\ MitReturned
    /\ mitArgs.mitigation_action = "MARK_AS_PHISHING"
    /\ providerRequest.sent
    /\ mitResult.value.status = "FAILURE"
    /\ mitResult.value.labels_applied = <<>>

\* C7: the call never raises; it returns a result whose status is SUCCESS or
\* FAILURE, and every FAILURE carries a non-empty error_code.
C7_AlwaysStructuredResult ==
    MitCalled =>
        /\ MitReturned
        /\ mitResult.value.status \in {"SUCCESS", "FAILURE"}
        /\ mitResult.value.status = "FAILURE" =>
              mitResult.value.error_code \notin {None, ""}

\* a provider call that timed out, reported as a FAILURE
C7_Witness ==
    /\ MitReturned
    /\ providerRequest.sent
    /\ mitArgs.answer.cls = "TimeoutError"
    /\ mitResult.value.status = "FAILURE"
    /\ mitResult.value.error_code = "UNKNOWN_API_ERROR"

C9_Delta(action) ==
    CASE action = "MARK_AS_PHISHING" ->
            [add |-> {"SPAM", "PHISHING_DETECTED_BY_ERIKA"}, remove |-> {"INBOX"}]
      [] action = "MARK_AS_SPAM" -> [add |-> {"SPAM"}, remove |-> {"INBOX"}]
      [] action = "MARK_AS_READ" -> [add |-> {}, remove |-> {"UNREAD"}]

C9_ActionLabelMapping ==
    MitCalled =>
        /\ mitArgs.mitigation_action \in SupportedActions =>
              /\ providerRequest.sent =>
                    /\ SeqToSet(providerRequest.addLabelIds)
                          = C9_Delta(mitArgs.mitigation_action).add
                    /\ SeqToSet(providerRequest.removeLabelIds)
                          = C9_Delta(mitArgs.mitigation_action).remove
              /\ (MitReturned /\ mitResult.value.status = "SUCCESS") =>
                    /\ providerRequest.sent
                    /\ labels = (prevLabels \ C9_Delta(mitArgs.mitigation_action).remove)
                                   \cup C9_Delta(mitArgs.mitigation_action).add
              /\ (MitReturned /\ mitResult.value.status = "FAILURE") =>
                    labels = prevLabels
        /\ mitArgs.mitigation_action \notin SupportedActions =>
              /\ MitReturned
              /\ mitResult.value.status = "FAILURE"
              /\ mitResult.value.error_code = "UNSUPPORTED_ACTION"
              /\ ~providerRequest.sent
              /\ labels = prevLabels

\* MARK_AS_PHISHING succeeded on a message that was in INBOX and STARRED
C9_Witness ==
    /\ MitReturned
    /\ mitResult.value.status = "SUCCESS"
    /\ mitArgs.mitigation_action = "MARK_AS_PHISHING"
    /\ prevLabels = {"INBOX", "UNREAD", "STARRED"}
    /\ labels = {"SPAM", "PHISHING_DETECTED_BY_ERIKA", "UNREAD", "STARRED"}

-----------------------------------------------------------------------------
(* Properties of load_token, checked under SpecToken                       *)

\* C10: what load_token gives its caller when the refresh fails because the
\* grant is revoked differs from what it gives when the refresh fails for
\* another reason and from what it gives when no credential is stored.
C10_RevocationSignalDistinct ==
    signals["revoked"].kind # "unseen" =>
        /\ signals["revoked"] # signals["refresh_failed"]
        /\ signals["revoked"] # signals["absent"]

\* the last operation was load_token and its refresh call raised
LoadRefreshRaised == lastOp = "load" /\ IsRaise(refreshResult)

\* C11: after a load_token whose refresh was refused by the authorization
\* server (the grant is revoked, or the authorization is denied) neither the
\* token file nor the metadata file exists; after one whose refresh failed in
\* transport both files are still there.
C11_PermanentFailureDeletesBoth ==
    LoadRefreshRaised =>
        IF refreshResult.cls = "RefreshError"
        THEN ~tokenFile.exists /\ ~metadataFile.exists
        ELSE tokenFile.exists /\ metadataFile.exists

\* C12: load_token on a stored credential that has not reached its expiry
\* returns a credential with the scopes and the expiry that were saved, calls
\* creds.refresh not once, and leaves the token file and the metadata file as
\* they were.
C12_RoundTripKeepsCredential ==
    [][(lastOp' = "load" /\ tokenFile.exists /\ now < tokenFile.creds.expiry) =>
          /\ loadOutcome'.kind = "return"
          /\ loadOutcome'.value.t = "creds"
          /\ loadOutcome'.value.scopes = tokenFile.creds.scopes
          /\ loadOutcome'.value.expiry = tokenFile.creds.expiry
          /\ refreshLog' = <<>>
          /\ tokenFile' = tokenFile
          /\ metadataFile' = metadataFile]_vars

\* a credential saved by the flow was loaded one tick before its expiry
C12_Witness ==
    /\ lastOp = "load"
    /\ loadCase = "valid"
    /\ tokenFile.exists
    /\ now + 1 = tokenFile.creds.expiry
    /\ loadOutcome.value = tokenFile.creds
    /\ refreshLog = <<>>

\* C13: when load_token meets an expired credential with a refresh token and
\* the refresh succeeds, the refreshed credential is the one in the token file
\* and the one returned, and the metadata file keeps its token_uri, scopes and
\* user_id: only last_refreshed and expiry are written anew.
C13_RefreshPersistsAndKeepsMetadata ==
    [][(lastOp' = "load" /\ refresh_due(tokenFile, now) /\ metadataFile.exists
        /\ refreshResult'.kind = "return") =>
          /\ loadOutcome' = Returned(refreshResult'.value)
          /\ tokenFile' = [exists |-> TRUE, creds |-> refreshResult'.value]
          /\ refreshResult'.value.expiry > now
          /\ metadataFile'.exists
          /\ metadataFile'.data.token_uri = metadataFile.data.token_uri
          /\ metadataFile'.data.scopes = metadataFile.data.scopes
          /\ metadataFile'.data.user_id = metadataFile.data.user_id
          /\ metadataFile'.data.expiry = refreshResult'.value.expiry
          /\ metadataFile'.data.last_refreshed = now]_vars

\* a refresh has succeeded after the first expiry: the metadata carries the
\* new expiry and the time of the refresh
C13_Witness ==
    /\ lastOp = "load"
    /\ loadCase = "refreshed"
    /\ refreshResult.kind = "return"
    /\ loadOutcome = Returned(tokenFile.creds)
    /\ metadataFile.data.last_refreshed = now
    /\ metadataFile.data.expiry = now + TokenLifetime
    /\ now >= TokenLifetime

\* the keys of the metadata JSON
MetadataKeys == {"token_uri", "scopes", "expiry", "last_refreshed", "user_id"}

\* the keys under which secret material would appear
SecretKeys == {"token", "refresh_token", "client_id", "client_secret"}

\* C14: the metadata file holds exactly token_uri, scopes, expiry,
\* last_refreshed and user_id, and none of token, refresh_token, client_id,
\* client_secret.
C14_MetadataHasNoSecrets ==
    metadataFile.exists =>
        /\ DOMAIN metadataFile.data = MetadataKeys
        /\ DOMAIN metadataFile.data \cap SecretKeys = {}

\* the metadata has been written twice: by the flow and by a later refresh
C14_Witness ==
    /\ metadataFile.exists
    /\ loadCase = "refreshed"
    /\ metadataFile.data.last_refreshed > 0
    /\ metadataFile.data.user_id = USER_ID

-----------------------------------------------------------------------------
(* Properties of authenticate, checked under SpecAuth                      *)

\* the transitions the lifecycle is said to have
ClaimedTransitions ==
    {<<"Absent", "Pending">>, <<"Pending", "Valid">>, <<"Valid", "Expired">>,
     <<"Expired", "Valid">>, <<"Expired", "Revoked">>}

\* the transitions by which authenticate starts over with a new credential,
\* and those of a flow that fails and leaves the store as it was
Reauthorization ==
    {<<"Expired", "Pending">>, <<"Revoked", "Pending">>,
     <<"Pending", "Absent">>, <<"Pending", "Expired">>, <<"Pending", "Revoked">>}

\* every move along the trail is one of the allowed transitions
Follows(trail, allowed) ==
    \A i \in 1..(Len(trail) - 1) :
        trail[i] = trail[i + 1] \/ <<trail[i], trail[i + 1]>> \in allowed

\* the stations the stored credential passes in the step at hand
StepTrail ==
    <<lifecycle(tokenFile, now, revokedTokens)>>
    \o (IF lastOp' = "authenticate" THEN authInfo'.trail ELSE <<>>)
    \o <<lifecycle(tokenFile', now', revokedTokens')>>

\* how often creds.refresh was called on a credential
Occurrences(log, c) == Cardinality({i \in 1..Len(log) : log[i] = c})

\* a credential found revoked is not refreshed again (the refresh that finds
\* it revoked is its last) and is not the one authenticate builds the service
\* with
RevokedStaysDead ==
    lastOp' = "authenticate" =>
        \A c \in revokedTokens' :
            /\ Occurrences(refreshLog', c) <= (IF c \in revokedTokens THEN 0 ELSE 1)
            /\ authInfo'.creds # c

\* C15: the stored credential moves only Absent -> Pending -> Valid,
\* Valid -> Expired, Expired -> Valid by refresh and Expired -> Revoked, and a
\* credential found revoked is never refreshed again nor handed out as usable.
C15_LifecycleTransitions ==
    [][Follows(StepTrail, ClaimedTransitions) /\ RevokedStaysDead]_vars

\* C15, amended: besides the claimed transitions the stored credential moves
\* Expired -> Pending and Revoked -> Pending when authenticate falls back to a
\* new flow, and from Pending back to where it was when the flow fails; it
\* never leaves Valid except by expiry, never leaves Absent except by a flow,
\* and a credential found revoked is never refreshed again nor handed out.
C15_LifecycleWithReauthorization ==
    [][Follows(StepTrail, ClaimedTransitions \cup Reauthorization)
       /\ RevokedStaysDead]_vars

\* authenticate met a revoked grant, deleted the files and obtained a new
\* credential by the flow
C15_Witness ==
    /\ lastOp = "authenticate"
    /\ authInfo.trail = <<"Expired", "Revoked", "Revoked", "Pending", "Valid">>
    /\ revokedTokens # {}
    /\ authInfo.creds.t = "creds"
    /\ authInfo.creds \notin revokedTokens

\* the last operation was an authenticate call that got past the client
\* configuration check
Authenticated == lastOp = "authenticate" /\ authInfo.config_ok

\* C16: in one authenticate call creds.refresh is called once if the stored
\* credential is expired and has a refresh token and not at all otherwise:
\* load_token and authenticate together never call it twice; when that one
\* refresh fails, authenticate goes on to the OAuth flow without a second
\* call to the token endpoint.
C16_RefreshAtMostOnce ==
    Authenticated =>
        /\ Len(refreshLog) = (IF authInfo.due THEN 1 ELSE 0)
        /\ IsRaise(refreshResult) =>
              /\ authInfo.flow
              /\ authInfo.net = <<"token_endpoint", "authorization_endpoint">>

\* the one refresh failed and the flow that followed gave a new credential
C16_Witness ==
    /\ Authenticated
    /\ authInfo.due
    /\ IsRaise(refreshResult)
    /\ Len(refreshLog) = 1
    /\ authInfo.flow
    /\ authOutcome = Returned(TRUE)

-----------------------------------------------------------------------------
(* Properties of the email dicts, checked under SpecIngest                 *)

\* a provider's service has made an email dict of the message
Ingested == ingestResult.kind = "return" /\ ingestResult.value.t = "email"

\* the text holds a character the pattern of _validate_text_field matches
has_control(text) == \E i \in 1..Len(text.runs) : text.runs[i].k = "ctl"

\* C20: in every email dict a provider's service makes, subject, sender and
\* body hold no control character (none below 0x20 but newline and tab),
\* whatever the lengths of the fields of the message.
C20_NoControlCharacters ==
    Ingested =>
        /\ ~has_control(ingestResult.value.subject)
        /\ ~has_control(ingestResult.value.sender)
        /\ ~has_control(ingestResult.value.body)

-----------------------------------------------------------------------------
(* Properties of fetching and sending, checked under SpecMail              *)

\* the call was a fetch that got as far as asking the provider
Fetched ==
    /\ mailArgs.kind = "call"
    /\ mailArgs.op = "get_unread_emails"
    /\ mailResult.fetch.sent

\* value brought into lo..hi
InRange(value, lo, hi) == IF value < lo THEN lo ELSE IF value > hi THEN hi ELSE value

\* C17: whichever provider's service fetches unread mail, the number of
\* messages it takes at most is max_results brought into 1..500 and the days it
\* looks back are days_back brought into 1..30 (10000 becomes 500, 0 days
\* become 1), and it returns no more than 500 messages.
C17_FetchClamped ==
    Fetched =>
        /\ mailResult.fetch.limit = InRange(mailArgs.max_results, 1, 500)
        /\ mailResult.fetch.days = InRange(mailArgs.days_back, 1, 30)
        /\ mailResult.out.kind = "return" => mailResult.out.value.n <= 500

\* the call was send_email or create_draft
SendCalled == mailArgs.kind = "call" /\ mailArgs.op \in SendMethods

\* C18: send_email and create_draft with an invalid recipient raise the
\* validation error to the caller, and no call to the token endpoint, the
\* authorization endpoint or the mail API has been made before it, whether
\* the service was already authenticated or not.
C18_InvalidRecipientRejectedFirst ==
    (SendCalled /\ ~validate_email_address(mailArgs.to)) =>
        /\ mailResult.out.kind = "raise"
        /\ mailResult.out.cls = "GmailValidationError"
        /\ mailResult.net = <<>>

\* the call failed because the credentials were not accepted: authenticate()
\* raised, or the provider answered that the caller is not authorized
AuthenticationFailed ==
    /\ mailArgs.kind = "call"
    /\ mailArgs.op \in SendMethods \cup {"get_unread_emails"}
    /\ mailResult.situation = "auth_failed"

\* what the same operation of the same provider gives its caller when the
\* connection to the provider fails
TransportFailureOutcome ==
    IF mailArgs.op = "get_unread_emails"
    THEN IF mailArgs.provider = "gmail"
         THEN gmail_get_unread_emails(StoredAtStart(TRUE), NoCall, 50, 7, 3,
                                      "transport_error").out
         ELSE imap_get_unread_emails(TRUE, "ok", 50, 7, 3, "transport_error").out
    ELSE gmail_send(mailArgs.op, StoredAtStart(TRUE), NoCall, "user@example.com",
                    Str(<<Run("text", 10)>>), Str(<<Run("text", 100)>>), NotStr,
                    "transport_error").out

\* what a fetch gives its caller when there is no unread mail
EmptyInboxOutcome ==
    IF mailArgs.provider = "gmail"
    THEN gmail_get_unread_emails(StoredAtStart(TRUE), NoCall, 50, 7, 0, "ok").out
    ELSE imap_get_unread_emails(TRUE, "ok", 50, 7, 0, "ok").out

\* C19: what the caller of a fetch or a send gets when authentication fails
\* differs from what it gets when the transport fails and, for a fetch, from
\* the empty list of an inbox without unread mail.
C19_AuthenticationFailureDistinct ==
    AuthenticationFailed =>
        /\ mailResult.out # TransportFailureOutcome
        /\ mailArgs.op = "get_unread_emails" => mailResult.out # EmptyInboxOutcome

-----------------------------------------------------------------------------
(* Properties of field lengths, checked under SpecIngest                   *)

\* the message read from the provider carried a field over its limit
OverLong ==
    \/ RunsLen(ingestArgs.subject.runs) > MAX_SUBJECT_LENGTH
    \/ RunsLen(ingestArgs.sender.runs) > MAX_SENDER_LENGTH
    \/ RunsLen(ingestArgs.body.runs) > MAX_BODY_LENGTH

\* the call read a message from the provider
MessageRead == ingestArgs.kind = "call" /\ ingestArgs.answer = "ok"

\* C21: every email dict of either provider's service has a subject of at
\* most 500 characters, a sender of at most 255 and a body of at most
\* 100,000, and a message that was read is delivered whatever its lengths.
C21_FieldLengthsBounded ==
    /\ MessageRead => Ingested
    /\ Ingested =>
        /\ RunsLen(ingestResult.value.subject.runs) <= MAX_SUBJECT_LENGTH
        /\ RunsLen(ingestResult.value.sender.runs) <= MAX_SENDER_LENGTH
        /\ RunsLen(ingestResult.value.body.runs) <= MAX_BODY_LENGTH

-----------------------------------------------------------------------------
(* Properties of the assessment, checked under SpecAssess                  *)

\* a message has been assessed
Assessed == assessArgs.kind = "call" /\ assessResult.kind = "return"

\* the sender of the message assessed last holds no address the pattern finds
Unparseable == Assessed /\ extract_domain(assessArgs.message.sender) = None

\* the analyzer gives the default record for a sender it cannot parse
DefaultRecordForUnparseable ==
    Unparseable => assessResult.footprint = default_footprint

\* C22: a sender whose address cannot be parsed gets the default record
\* (domain unknown, source_count 0, age_days 999, reputation unknown), and a
\* message scored with it, with no domain mismatch and content_risk_score 0,
\* gets footprint_risk 0, threat_score 0 and the action NONE.
C22_DefaultFootprintIsNoRisk ==
    /\ DefaultRecordForUnparseable
    /\ (/\ Unparseable
        /\ assessArgs.message.content_risk_score = 0
        /\ assessResult.analysis.scoring_breakdown.domain_mismatch_risk = 0)
       => /\ assessResult.analysis.scoring_breakdown.footprint_risk = 0
          /\ assessResult.analysis.threat_score = 0
          /\ assessResult.analysis.mitigation_action_recommended = "NONE"

-----------------------------------------------------------------------------
(* Properties of the phishing check and the sender verification, checked   *)
(* under SpecPhish                                                         *)

\* the phishing check of a message ran
PhishingChecked == phishArgs.kind = "call" /\ phishResult.kind = "return"

\* the phishing analysis of the message was wanted and a part of it failed:
\* the detector or the image search could not be imported, a Lens search
\* failed, or an exception ended the analysis
SubAnalysisFailed ==
    /\ PhishingChecked
    /\ phishArgs.phishing_enabled /\ phishArgs.reverse_search_enabled
    /\ \/ ~phishArgs.detector_imports
       \/ ~phishArgs.ready
       \/ /\ phishArgs.has_images
          /\ \/ phishArgs.lens1 # "ok"
             \/ phishArgs.lens2 # "ok"
             \/ phishResult.value.note = "error"

\* a failed sub-analysis does not stop the message from being delivered
FailedAnalysisStillDelivers == SubAnalysisFailed => phishResult.value.delivered

\* C23: when a sub-analysis of the phishing check fails the message is still
\* delivered and carries a non-zero risk score for the failed analysis: it
\* is never left with the zero-risk, not-phishing result of a clean analysis.
C23_FailedAnalysisIsNotClean ==
    SubAnalysisFailed =>
        /\ phishResult.value.delivered
        /\ phishResult.value.has_analysis
        /\ phishResult.value.phishing_risk_score > 0

\* verify_email_sender was called with a profile image
VerifiedWithImage == verifyArgs.kind = "call" /\ verifyArgs.has_image

\* the detector contributions of the matches the search gave, capped
searched_matches == perform_google_search(verifyArgs.lens, verifyArgs.matches)
detector_risk ==
    pattern_risk(searched_matches,
                 {role_category(identities_of(searched_matches)[i].role) :
                     i \in 1..Len(identities_of(searched_matches))})

\* the call returned, its score is in range and verified follows the score
VerifyResultInRange ==
    VerifiedWithImage /\ verifyResult.kind = "return" =>
        /\ 0 <= verifyResult.value.risk_score
        /\ verifyResult.value.risk_score <= 10000
        /\ verifyResult.value.verified <=> verifyResult.value.risk_score < 4000

\* C24: every verify_email_sender call with a profile image returns a result
\* whose risk_score is within [0, 1] and is the capped sum of the detector
\* contributions, plus 0.2 at most once for a name mismatch, and whose
\* verified is true exactly when risk_score < 0.4.
C24_VerifyRiskScore ==
    VerifiedWithImage =>
        /\ verifyResult.kind = "return"
        /\ 0 <= verifyResult.value.risk_score
        /\ verifyResult.value.risk_score <= 10000
        /\ verifyResult.value.risk_score \in
              {detector_risk, Min(detector_risk + 2000, 10000)}
        /\ verifyResult.value.verified <=> verifyResult.value.risk_score < 4000

-----------------------------------------------------------------------------
(* Properties of the gateway payload, checked under SpecGateway            *)

\* a payload was posted
Posted == syncArgs.kind = "call" /\ gatewayPayload.sent

\* the value is a text that holds a control or a markup character
is_raw(value) ==
    value.t = "str" /\ \E i \in 1..Len(value.runs) : value.runs[i].k \in {"ctl", "markup"}

\* the caller's record is the same after the call
RecordUnmodified == Posted => syncResult.record = syncArgs.email_data

\* the text fields and the sensitive fields of the payload are clean
ListedFieldsSanitized ==
    Posted =>
        \A k \in DOMAIN gatewayPayload.email_data :
            k \in text_fields \cup sensitive_fields =>
                /\ ~is_raw(gatewayPayload.email_data[k])
                /\ gatewayPayload.email_data[k].t \notin {"secret", "raw_message"}

\* C25: no field of a payload posted to the gateway holds unsanitized message
\* text, credential material or the raw provider message, whatever keys the
\* record has, and the caller's record is not modified.
C25_PayloadSanitized ==
    Posted =>
        /\ \A k \in DOMAIN gatewayPayload.email_data :
              /\ ~is_raw(gatewayPayload.email_data[k])
              /\ gatewayPayload.email_data[k].t \notin {"secret", "raw_message"}
        /\ syncResult.record = syncArgs.email_data

-----------------------------------------------------------------------------
(* Properties of the shared cache, checked under SpecFootprint             *)

\* the record get_footprint_data gives for the sender when no other thread runs
sequential_record(sender) == get_footprint_data(EmptyCache, sender).out

\* every key of the cache holds nothing or a record of its own domain
CacheKeysMatch ==
    \A d \in Domains : cache[d].t # "absent" => cache[d].domain = d

\* C26: under every interleaving of get_footprint_data and clear_cache calls
\* of several threads on one analyzer, each call returns the record a call
\* running alone returns for its sender, and the cache holds under each
\* domain only a record of that domain.
C26_CacheSafeUnderConcurrency ==
    /\ \A t \in Threads :
          lookupPc[t] = "done" => lookupOut[t] = sequential_record(lookupSender[t])
    /\ CacheKeysMatch

-----------------------------------------------------------------------------
(* The footprint contribution, checked under SpecScore                     *)

\* the contribution as the rule states it for a source count and an age
stated_footprint_risk(source_count, age_days) ==
    IF source_count = 0 /\ age_days < 90 THEN 4000
    ELSE IF source_count < 3 /\ age_days < 180 THEN 2000
    ELSE IF source_count < 10 THEN 1000
    ELSE 0

\* the number a field of the footprint record stands for: its value, or the
\* default when the record has no such key
field_or(field, default) == IF field.t = "missing" THEN default ELSE field.v

\* the call scored a footprint record whose two fields are numbers or missing,
\* and no step of it failed
FootprintScored ==
    /\ ScoreReturned
    /\ ~ComputationFailed(scoreArgs)
    /\ scoreArgs.footprint_data.t = "dict"
    /\ scoreArgs.footprint_data.source_count.t # "none"
    /\ scoreArgs.footprint_data.age_days.t # "none"

\* C27: the footprint contribution is 0.40 for source_count 0 and age below
\* 90, else 0.20 for source_count below 3 and age below 180, else 0.10 for
\* source_count below 10, else 0, with source_count 0 and age_days 999 taken
\* for a missing field.
C27_FootprintContribution ==
    FootprintScored =>
        scoreResult.value.scoring_breakdown.footprint_risk =
            stated_footprint_risk(field_or(scoreArgs.footprint_data.source_count, 0),
                                  field_or(scoreArgs.footprint_data.age_days, 999))

\* a record with 2 sources and an age of 180 days: the second rule's age bound
\* is not met and the third rule gives 0.10
C27_Witness ==
    /\ FootprintScored
    /\ scoreArgs.footprint_data.source_count = Num(2)
    /\ scoreArgs.footprint_data.age_days = Num(180)
    /\ scoreResult.value.scoring_breakdown.footprint_risk = 1000

-----------------------------------------------------------------------------
(* The two lists of personal-mail domains, checked under SpecAssess        *)

\* the analyzer scored the sender's domain with the personal-provider values
AnalyzerTreatsAsPersonal ==
    /\ extract_domain(assessArgs.message.sender) # None
    /\ is_personal_domain(extract_domain(assessArgs.message.sender))

\* the bridge's mismatch detector takes the sender's domain for a personal one
BridgeTreatsAsPersonal ==
    /\ email_match(assessArgs.message.sender) # None
    /\ email_match(assessArgs.message.sender) \in bridge_personal_domains

\* C28: for every sender, the analyzer uses the personal-provider heuristic
\* for its domain exactly when the bridge's domain-mismatch detector treats
\* the same domain as a personal-mail domain.
C28_PersonalDomainsAgree ==
    Assessed => (AnalyzerTreatsAsPersonal <=> BridgeTreatsAsPersonal)

-----------------------------------------------------------------------------
(* The highest action of the assessment, checked under SpecAssess          *)

\* every message of the inbox has been assessed
InboxAssessed == inboxPos = InboxSize

\* no assessed message scores above 0.70
ComposedScoreAtMost70 == Assessed => assessResult.analysis.threat_score <= 7000

\* C29: with the analyzer's record of the sender as footprint_data, some
\* sender, body and content_risk_score get threat_score >= 0.8 and the action
\* MARK_AS_PHISHING: once every message of the inbox is assessed, one of them
\* has got that action.
C29_PhishingActionReachable ==
    InboxAssessed => "MARK_AS_PHISHING" \in recommended

-----------------------------------------------------------------------------
(* C30 *)

\* the last call was a pass of the keep-alive loop
PassMade == lastPass.kind = "pass"

\* the pass met an unhealthy gateway, or a healthy one that did not list the
\* plugin, and the registration it then tried did not succeed
PassLeftUnregistered ==
    /\ PassMade
    /\ \/ ~lastPass.healthy
       \/ lastPass.info = "not_listed"
    /\ lastPass.reg # "ok"

\* a pass that met an unhealthy gateway and could not register leaves the flag
\* false
UnhealthyPassClearsFlag ==
    PassMade /\ ~lastPass.healthy /\ lastPass.reg # "ok" => ~registered

\* once the gateway is stable the flag, when true, stays true
StaysRegistered == [][gatewayMode = "stable" /\ registered => registered']_vars

\* once the gateway is stable the loop sets the flag
EventuallyRegistered == (gatewayMode = "stable") ~> (registered /\ gatewayKnows)

\* C30: after a pass of the keep-alive loop in which the gateway was unhealthy,
\* or was healthy but did not list the plugin, and the re-registration did not
\* succeed, registered is false.
C30_RegisteredOnlyIfKnown == PassLeftUnregistered => ~registered

====
